---- MODULE Spec2Model ----
(***************************************************************************)
(* A model of the YASM cache engine (src/src/core/index.ts): the YasmStore  *)
(* class (entry map, LRU list, pending-fetch registry, localStorage         *)
(* persistence), the parseTime duration parser, YasmStore.preload and the   *)
(* executeFetch part of the useData hook.                                   *)
(*                                                                         *)
(* Scheduling: JavaScript runs every store method to completion; the only  *)
(* suspension point is the await of a fetch.  The settlement of a fetch     *)
(* and the continuation registered on it by preload / executeFetch are one *)
(* step; callers that joined the fetch observe it in later steps.           *)
(***************************************************************************)
EXTENDS Integers, Sequences, FiniteSets, TLC

\* ------------------------------------------------------------------ bounds

NumKeys    == 2      \* keys of the general specification
LruNumKeys == 4      \* keys of the LRU specification (A, B, C, D)
MaxMaxSize == 2      \* the constructor's maxSize option ranges over 1..MaxMaxSize
LruMaxSize == 3      \* maxSize of the LRU specification
MaxTicks   == 2      \* the clock advances at most this many times
TickMs     == 3000   \* milliseconds per clock step
MaxFetches == 2      \* fetch operations started in one behaviour
MaxCallers == 3      \* preload / executeFetch calls in one behaviour
NumHooks   == 2      \* useData hook instances of the hook specification
ClearNumKeys == 3    \* keys of the clear / remove specification (user:1, user:2, post:1)
MaxDigit   == 2      \* largest digit of a duration string given to parseTime
ScriptLen  == 3      \* calls in one script run on two stores side by side

Keys    == 1 .. NumKeys
LruKeys == 1 .. LruNumKeys
ClearKeys == 1 .. ClearNumKeys
MaxNow  == MaxTicks * TickMs

\* ------------------------------------------------------- program constants

Null            == 0         \* a null node reference, an absent map value
Undefined       == 0         \* data: undefined (CacheItem.data), get's null
ThrottleMs      == 5000      \* get: throttle window outside debug mode
MaxItemSize     == 50        \* the maxItemSize option the model's stores are built with
DefaultHookTtl  == 300000    \* useData: ttlMs when no ttl option is given

Min(a, b) == IF a < b THEN a ELSE b

\* A data value d >= 1 stands for a string of d characters; JSON.stringify adds
\* the two quotes, estimateSize counts two bytes per character.
Values == {1, 2, 30}

\* ---------------------------------------------------------------- variables

VARIABLES
    cache,                 \* Map<string, CacheItem>: key -> item
    lruMap,                \* Map<string, ListNode>: key -> [next, prev]
    lruHead, lruTail,      \* ListNode | null, as the node's key
    activeRequests,        \* Map<string, Promise>: key -> fetch id
    refreshIntervals,      \* Map<string, Timeout>: key -> timer id
    revalidationCallbacks, \* Map<string, Set<callback>>
    focusListener, onlineListener,   \* installed window listeners
    storage,               \* localStorage under this.prefix: key -> record
    persist, isClient, maxSize, debug,   \* constructor options, environment
    now,                   \* Date.now()
    fetches,               \* the fetch operations started so far
    callers,               \* the preload / executeFetch calls made so far
    debugState,            \* the debug monitor's operations and revalidating keys
    NODE_ENV,              \* process.env.NODE_ENV
    hooks,                 \* the useData hook instances: refs and React state
    ret,                   \* what the last call returned
    hist                   \* history of the behaviour (for the properties only)

storeVars == <<cache, lruMap, lruHead, lruTail, activeRequests, refreshIntervals,
               revalidationCallbacks, focusListener, onlineListener, storage>>
confVars  == <<persist, isClient, maxSize, debug>>
debugVars == <<debugState, NODE_ENV>>
vars      == <<storeVars, confVars, debugVars, now, fetches, callers, hooks, ret,
               hist>>

\* ------------------------------------------------------------- Map helpers

EmptyMap == << >>

MapHas(m, k) == k \in DOMAIN m

MapSet(m, k, v) == [x \in (DOMAIN m) \cup {k} |-> IF x = k THEN v ELSE m[x]]

MapDelete(m, k) == [x \in (DOMAIN m) \ {k} |-> m[x]]

MapGet(m, k) == IF k \in DOMAIN m THEN m[k] ELSE Null

\* --------------------------------------------------------------- parseTime

Digits == <<"0", "1", "2", "3", "4", "5", "6", "7", "8", "9">>

LowerLetters == <<"a", "b", "c", "d", "e", "f", "g", "h", "i", "j", "k", "l", "m",
                  "n", "o", "p", "q", "r", "s", "t", "u", "v", "w", "x", "y", "z">>

UpperLetters == <<"A", "B", "C", "D", "E", "F", "G", "H", "I", "J", "K", "L", "M",
                  "N", "O", "P", "Q", "R", "S", "T", "U", "V", "W", "X", "Y", "Z">>

IsDigit(c) == \E i \in DOMAIN Digits : Digits[i] = c

IsLetter(c) ==
    \/ \E i \in DOMAIN LowerLetters : LowerLetters[i] = c
    \/ \E i \in DOMAIN UpperLetters : UpperLetters[i] = c

DigitValue(c) == (CHOOSE i \in DOMAIN Digits : Digits[i] = c) - 1

ToLowerChar(c) ==
    IF \E i \in DOMAIN UpperLetters : UpperLetters[i] = c
    THEN LowerLetters[CHOOSE i \in DOMAIN UpperLetters : UpperLetters[i] = c]
    ELSE c

ToLowerCase(s) == [i \in DOMAIN s |-> ToLowerChar(s[i])]

RECURSIVE ParseInt(_)
ParseInt(s) ==
    IF s = << >> THEN 0
    ELSE 10 * ParseInt(SubSeq(s, 1, Len(s) - 1)) + DigitValue(s[Len(s)])

\* TIME_UNITS, keyed by the unit as a sequence of characters; 0 when absent.
TIME_UNITS(unit) ==
    CASE unit = <<"m", "s">> -> 1
      [] unit = <<"s">>      -> 1000
      [] unit = <<"m">>      -> 60 * 1000
      [] unit = <<"h">>      -> 60 * 60 * 1000
      [] unit = <<"d">>      -> 24 * 60 * 60 * 1000
      [] unit = <<"w">>      -> 7 * 24 * 60 * 60 * 1000
      [] OTHER               -> 0

\* The all-letter lower-case property names TIME_UNITS inherits from
\* Object.prototype: TIME_UNITS[name] is a function there, which is truthy.
InheritedUnits == {<<"c", "o", "n", "s", "t", "r", "u", "c", "t", "o", "r">>}

\* A ttl argument: a number, or a string as its sequence of characters.
NumTtl(n) == [isNum |-> TRUE, n |-> n, s |-> << >>]
StrTtl(s) == [isNum |-> FALSE, n |-> 0, s |-> s]

\* The number of leading digits of s.
RECURSIVE LeadingDigits(_)
LeadingDigits(s) ==
    IF s = << >> \/ ~IsDigit(Head(s)) THEN 0 ELSE 1 + LeadingDigits(Tail(s))

\* parseTime: [ok, ms, error, isNaN]; a thrown Error is ok = FALSE with its
\* kind; isNaN when the product returned is NaN (ms is then meaningless).
parseTime(input) ==
    IF input.isNum
    THEN [ok |-> TRUE, ms |-> input.n, error |-> "none", isNaN |-> FALSE]
    ELSE
      LET s     == input.s
          nd    == LeadingDigits(s)
          value == SubSeq(s, 1, nd)
          unit  == SubSeq(s, nd + 1, Len(s))
          match == nd >= 1 /\ Len(unit) >= 1 /\ \A i \in DOMAIN unit : IsLetter(unit[i])
          multiplier == TIME_UNITS(ToLowerCase(unit))
      IN  IF ~match
          THEN [ok |-> FALSE, ms |-> 0, error |-> "InvalidFormat", isNaN |-> FALSE]
          ELSE IF ToLowerCase(unit) \in InheritedUnits
          THEN [ok |-> TRUE, ms |-> 0, error |-> "none", isNaN |-> TRUE]
          ELSE IF multiplier = 0
          THEN [ok |-> FALSE, ms |-> 0, error |-> "UnknownUnit", isNaN |-> FALSE]
          ELSE [ok |-> TRUE, ms |-> ParseInt(value) * multiplier, error |-> "none",
                isNaN |-> FALSE]

\* typeof ttl === "string" ? parseTime(ttl) : ttl
ParseTtlArg(ttl) == parseTime(ttl)

\* ------------------------------------------------------------ store state

\* The mutable fields of a YasmStore as one record, so that a method that calls
\* other methods is the composition of their effects.
Store ==
    [cache |-> cache, lruMap |-> lruMap, lruHead |-> lruHead, lruTail |-> lruTail,
     activeRequests |-> activeRequests, refreshIntervals |-> refreshIntervals,
     revalidationCallbacks |-> revalidationCallbacks,
     focusListener |-> focusListener, onlineListener |-> onlineListener,
     storage |-> storage]

Commit(S) ==
    /\ cache' = S.cache
    /\ lruMap' = S.lruMap
    /\ lruHead' = S.lruHead
    /\ lruTail' = S.lruTail
    /\ activeRequests' = S.activeRequests
    /\ refreshIntervals' = S.refreshIntervals
    /\ revalidationCallbacks' = S.revalidationCallbacks
    /\ focusListener' = S.focusListener
    /\ onlineListener' = S.onlineListener
    /\ storage' = S.storage

isDebugMode == debug

Persisting == persist /\ isClient

estimateSize(data) == IF data = Undefined THEN 0 ELSE (data + 2) * 2

hasData(item) == item.data # Undefined

\* JSON.stringify of the item without its promise, and JSON.parse of it.
Serialize(item) ==
    [data |-> item.data, lastAccess |-> item.lastAccess, ttl |-> item.ttl,
     expiresAt |-> item.expiresAt, hits |-> item.hits, size |-> item.size]

Deserialize(rec) ==
    [data |-> rec.data, lastAccess |-> rec.lastAccess, ttl |-> rec.ttl,
     expiresAt |-> rec.expiresAt, hits |-> rec.hits, size |-> rec.size,
     promise |-> Null]

\* ------------------------------------------------------------ recency list

NewNode == [next |-> Null, prev |-> Null]

\* lruMap with node k's neighbours linked to each other (k itself untouched).
Bypass(m, k) ==
    LET p  == m[k].prev
        n  == m[k].next
        m1 == IF p # Null /\ p \in DOMAIN m THEN [m EXCEPT ![p].next = n] ELSE m
    IN  IF n # Null /\ n \in DOMAIN m1 THEN [m1 EXCEPT ![n].prev = p] ELSE m1

\* A moveToHead that leaves the list as it is: gets no longer refresh recency.
moveToHead_Skipped(S, key) ==
    S

moveToHead(S, key) ==
    IF ~MapHas(S.lruMap, key) \/ S.lruHead = key THEN S
    ELSE
      LET node == S.lruMap[key]
          m1   == Bypass(S.lruMap, key)
          tail1 == IF S.lruTail = key THEN node.prev ELSE S.lruTail
          m2   == [m1 EXCEPT ![key] = [next |-> S.lruHead, prev |-> Null]]
          m3   == IF S.lruHead # Null /\ S.lruHead \in DOMAIN m2
                  THEN [m2 EXCEPT ![S.lruHead].prev = key] ELSE m2
      IN  [S EXCEPT !.lruMap = m3, !.lruHead = key,
                    !.lruTail = IF tail1 = Null THEN key ELSE tail1]

\* set's insertion of a new node at the head (lines 319-329).
AddNodeAtHead(S, key) ==
    IF S.lruHead = Null
    THEN [S EXCEPT !.lruMap = MapSet(S.lruMap, key, NewNode),
                   !.lruHead = key, !.lruTail = key]
    ELSE
      LET m1 == MapSet(S.lruMap, key, [next |-> S.lruHead, prev |-> Null])
          m2 == IF S.lruHead \in DOMAIN m1
                THEN [m1 EXCEPT ![S.lruHead].prev = key] ELSE m1
      IN  [S EXCEPT !.lruMap = m2, !.lruHead = key]

\* Mutant of UnlinkNode: the node is dropped without linking its neighbours
\* to each other.
UnlinkNode_NeighboursKept(S, key) ==
    IF ~MapHas(S.lruMap, key) THEN S
    ELSE
      LET node == S.lruMap[key]
      IN  [S EXCEPT !.lruMap = MapDelete(S.lruMap, key),
                    !.lruHead = IF S.lruHead = key THEN node.next ELSE S.lruHead,
                    !.lruTail = IF S.lruTail = key THEN node.prev ELSE S.lruTail]

\* remove's unlinking of the key's node (lines 378-385).
UnlinkNode(S, key) ==
    IF ~MapHas(S.lruMap, key) THEN S
    ELSE
      LET node == S.lruMap[key]
          m1   == Bypass(S.lruMap, key)
      IN  [S EXCEPT !.lruMap = MapDelete(m1, key),
                    !.lruHead = IF S.lruHead = key THEN node.next ELSE S.lruHead,
                    !.lruTail = IF S.lruTail = key THEN node.prev ELSE S.lruTail]

\* The keys of the recency list from the head along next.
RECURSIVE Walk(_, _, _)
Walk(m, k, n) ==
    IF k = Null \/ k \notin DOMAIN m \/ n = 0 THEN << >>
    ELSE <<k>> \o Walk(m, m[k].next, n - 1)

ListOrder(S) == Walk(S.lruMap, S.lruHead, Cardinality(DOMAIN S.lruMap))

\* ---------------------------------------------------------- store methods

\* Mutant of remove: the key's pending fetch stays registered.
remove_KeepsRequest(S, key) ==
    LET S1 == UnlinkNode(S, key)
    IN  [S1 EXCEPT !.cache = MapDelete(S1.cache, key),
                   !.storage = IF Persisting THEN MapDelete(S1.storage, key)
                               ELSE S1.storage]

\* Mutant of remove: the localStorage record is deleted whatever the options.
remove_Unguarded(S, key) ==
    LET S1 == UnlinkNode(S, key)
    IN  [S1 EXCEPT !.cache = MapDelete(S1.cache, key),
                   !.activeRequests = MapDelete(S1.activeRequests, key),
                   !.storage = MapDelete(S1.storage, key)]

\* remove(key), for a non-empty key; it returns true.
remove(S, key) ==
    LET S1 == UnlinkNode(S, key)
    IN  [S1 EXCEPT !.cache = MapDelete(S1.cache, key),
                   !.activeRequests = MapDelete(S1.activeRequests, key),
                   !.storage = IF Persisting THEN MapDelete(S1.storage, key)
                               ELSE S1.storage]

evictLRU(S) == IF S.lruTail = Null THEN S ELSE remove(S, S.lruTail)

\* What localStorage.setItem does in one saveToStorage call:
\*   "ok"      the first write succeeds
\*   "quota1"  QuotaExceededError, the retry after evictLRU succeeds
\*   "quota2"  QuotaExceededError on the write and on the retry
\*   "error"   another exception (it is swallowed, nothing is retried)
SaveOutcomes == {"ok", "quota1", "quota2", "error"}

\* Mutant of saveToStorage: a failed retry evicts once more.
saveToStorage_EvictsAgain(S, key, item, q) ==
    IF ~Persisting THEN S
    ELSE CASE q = "ok"     -> [S EXCEPT !.storage = MapSet(S.storage, key, Serialize(item))]
           [] q = "quota1" -> LET S1 == evictLRU(S)
                              IN  [S1 EXCEPT !.storage =
                                      MapSet(S1.storage, key, Serialize(item))]
           [] q = "quota2" -> evictLRU(evictLRU(S))
           [] OTHER        -> S

saveToStorage(S, key, item, q) ==
    IF ~Persisting THEN S
    ELSE CASE q = "ok"     -> [S EXCEPT !.storage = MapSet(S.storage, key, Serialize(item))]
           [] q = "quota1" -> LET S1 == evictLRU(S)
                              IN  [S1 EXCEPT !.storage =
                                      MapSet(S1.storage, key, Serialize(item))]
           [] q = "quota2" -> evictLRU(S)
           [] OTHER        -> S

throttleMs == IF isDebugMode THEN 0 ELSE ThrottleMs

\* Mutant of get: an entry counts as expired only after expiresAt.
get_ExpiredLate(S, key, t, q) ==
    IF ~MapHas(S.cache, key) THEN [s |-> S, val |-> Undefined]
    ELSE
      LET item == S.cache[key]
      IN  IF t > item.expiresAt THEN [s |-> remove(S, key), val |-> Undefined]
          ELSE [s |-> moveToHead(S, key), val |-> item.data]

\* Mutant of get: every get of an unexpired entry counts as a hit.
get_Unthrottled(S, key, t, q) ==
    IF ~MapHas(S.cache, key) THEN [s |-> S, val |-> Undefined]
    ELSE
      LET item == S.cache[key]
      IN  IF t >= item.expiresAt THEN [s |-> remove(S, key), val |-> Undefined]
          ELSE
            LET item1 == [item EXCEPT !.hits = @ + 1, !.lastAccess = t]
                S1    == [S EXCEPT !.cache[key] = item1]
            IN  [s |-> moveToHead(saveToStorage(S1, key, item1, q), key),
                 val |-> item1.data]

\* get(key) at time t: [s |-> the store afterwards, val |-> the value returned]
get(S, key, t, q) ==
    IF ~MapHas(S.cache, key) THEN [s |-> S, val |-> Undefined]
    ELSE
      LET item == S.cache[key]
      IN  IF t >= item.expiresAt THEN [s |-> remove(S, key), val |-> Undefined]
          ELSE
            LET hit   == t - item.lastAccess > throttleMs
                item1 == IF hit THEN [item EXCEPT !.hits = @ + 1, !.lastAccess = t]
                         ELSE item
                S1    == IF hit THEN [S EXCEPT !.cache[key] = item1] ELSE S
                S2    == IF hit THEN saveToStorage(S1, key, item1, q) ELSE S1
            IN  [s |-> moveToHead(S2, key), val |-> item1.data]

\* Mutant of set: the size is checked after the recency index made room.
set_SizeCheckedLate(S, key, data, ttl, t, q) ==
    LET parsed == ParseTtlArg(ttl)
        size   == estimateSize(data)
    IN  IF ~parsed.ok THEN [s |-> S, val |-> FALSE]
        ELSE
          LET item == [data |-> data, lastAccess |-> t, ttl |-> parsed.ms,
                       expiresAt |-> t + parsed.ms, hits |-> 0, size |-> size,
                       promise |-> Null]
              S1 == IF ~MapHas(S.lruMap, key)
                    THEN LET A == AddNodeAtHead(S, key)
                         IN  IF Cardinality(DOMAIN A.cache) >= maxSize
                             THEN evictLRU(A) ELSE A
                    ELSE moveToHead(S, key)
              S2 == [S1 EXCEPT !.cache = MapSet(S1.cache, key, item)]
          IN  IF size > MaxItemSize THEN [s |-> S1, val |-> FALSE]
              ELSE [s |-> saveToStorage(S2, key, item, q), val |-> TRUE]

\* set(key, data, ttl) at time t: [s, val |-> the boolean returned]
set(S, key, data, ttl, t, q) ==
    LET parsed == ParseTtlArg(ttl)
        size   == estimateSize(data)
    IN  IF ~parsed.ok THEN [s |-> S, val |-> FALSE]
        ELSE IF size > MaxItemSize THEN [s |-> S, val |-> FALSE]
        ELSE
          LET item == [data |-> data, lastAccess |-> t, ttl |-> parsed.ms,
                       expiresAt |-> t + parsed.ms, hits |-> 0, size |-> size,
                       promise |-> Null]
              S1 == IF ~MapHas(S.lruMap, key)
                    THEN LET A == AddNodeAtHead(S, key)
                         IN  IF Cardinality(DOMAIN A.cache) >= maxSize
                             THEN evictLRU(A) ELSE A
                    ELSE moveToHead(S, key)
              S2 == [S1 EXCEPT !.cache = MapSet(S1.cache, key, item)]
          IN  [s |-> saveToStorage(S2, key, item, q), val |-> TRUE]

\* Mutant of clearPattern: every entry is removed, whatever the pattern.
clearPattern_Everything(S, matched) ==
    LET RECURSIVE RemoveAll(_, _)
        RemoveAll(T, ks) ==
            IF ks = {} THEN T
            ELSE LET k == CHOOSE x \in ks : TRUE
                 IN  RemoveAll(remove(T, k), ks \ {k})
    IN  [s |-> RemoveAll(S, DOMAIN S.cache),
         val |-> Cardinality((DOMAIN S.cache) \cap matched)]

\* clear(pattern): the pattern is given by the set of keys its regex matches.
clearPattern(S, matched) ==
    LET hit == (DOMAIN S.cache) \cap matched
        RECURSIVE RemoveAll(_, _)
        RemoveAll(T, ks) ==
            IF ks = {} THEN T
            ELSE LET k == CHOOSE x \in ks : TRUE
                 IN  RemoveAll(remove(T, k), ks \ {k})
    IN  [s |-> RemoveAll(S, hit), val |-> Cardinality(hit)]

\* clear() with no pattern.
clearAll(S) ==
    [s |-> [S EXCEPT !.cache = EmptyMap,
                     !.activeRequests = EmptyMap,
                     !.refreshIntervals = EmptyMap,
                     !.revalidationCallbacks = EmptyMap,
                     !.focusListener = IF isClient THEN FALSE ELSE @,
                     !.onlineListener = IF isClient THEN FALSE ELSE @,
                     !.storage = IF Persisting THEN EmptyMap ELSE @],
     val |-> Cardinality(DOMAIN S.cache)]

\* Mutant of setPromise: attaching to an existing entry restamps its expiry.
setPromise_Restamps(S, key, promise, ttl, t) ==
    LET parsed == ParseTtlArg(ttl)
    IN  IF ~parsed.ok THEN [s |-> S, ok |-> FALSE]
        ELSE IF MapHas(S.cache, key)
        THEN [s |-> [S EXCEPT !.cache[key].promise = promise,
                              !.cache[key].lastAccess = t,
                              !.cache[key].expiresAt = t + parsed.ms],
              ok |-> TRUE]
        ELSE [s |-> [S EXCEPT !.cache = MapSet(S.cache, key,
                        [data |-> Undefined, lastAccess |-> t, ttl |-> parsed.ms,
                         expiresAt |-> t + parsed.ms, hits |-> 0, size |-> 0,
                         promise |-> promise])],
              ok |-> TRUE]

\* setPromise(key, promise, ttl) at time t: [s, ok]; ok = FALSE when parseTime throws.
setPromise(S, key, promise, ttl, t) ==
    IF MapHas(S.cache, key)
    THEN [s |-> [S EXCEPT !.cache[key].promise = promise], ok |-> TRUE]
    ELSE
      LET parsed == ParseTtlArg(ttl)
      IN  IF ~parsed.ok THEN [s |-> S, ok |-> FALSE]
          ELSE [s |-> [S EXCEPT !.cache = MapSet(S.cache, key,
                          [data |-> Undefined, lastAccess |-> t, ttl |-> parsed.ms,
                           expiresAt |-> t + parsed.ms, hits |-> 0, size |-> 0,
                           promise |-> promise])],
                ok |-> TRUE]

getPromise(S, key) == IF MapHas(S.cache, key) THEN S.cache[key].promise ELSE Null

clearPromise(S, key) ==
    IF MapHas(S.cache, key) THEN [S EXCEPT !.cache[key].promise = Null] ELSE S

hasActiveRequest(S, key) == MapHas(S.activeRequests, key)

getActiveRequest(S, key) == MapGet(S.activeRequests, key)

setActiveRequest(S, key, promise) ==
    [S EXCEPT !.activeRequests = MapSet(S.activeRequests, key, promise)]

deleteActiveRequest(S, key) ==
    [S EXCEPT !.activeRequests = MapDelete(S.activeRequests, key)]

\* getItemInfo(key): the public view of the entry; null is [found |-> FALSE].
getItemInfo(S, key) ==
    IF ~MapHas(S.cache, key) THEN [found |-> FALSE]
    ELSE LET item == S.cache[key]
         IN  [found |-> TRUE,
              data |-> item.data, timestamp |-> item.lastAccess, ttl |-> item.ttl,
              expiresAt |-> item.expiresAt, hits |-> item.hits,
              lastAccess |-> item.lastAccess, size |-> item.size,
              hasPromise |-> item.promise # Null]

getKeys(S) == DOMAIN S.cache

RECURSIVE SumOver(_, _, _)
SumOver(m, ks, field) ==
    IF ks = {} THEN 0
    ELSE LET k == CHOOSE x \in ks : TRUE
         IN  (IF field = "size" THEN m[k].size ELSE m[k].hits)
             + SumOver(m, ks \ {k}, field)

getStats(S) ==
    [itemCount |-> Cardinality(DOMAIN S.cache),
     totalSize |-> SumOver(S.cache, DOMAIN S.cache, "size"),
     totalHits |-> SumOver(S.cache, DOMAIN S.cache, "hits"),
     storageSupported |-> isClient,
     persistenceEnabled |-> persist]

\* A localStorage value that JSON.parse rejects.
CorruptRecord == [text |-> "invalid json"]

Parses(rec) == "expiresAt" \in DOMAIN rec

\* The orders in which localStorage.key(0), key(1), ... may enumerate the keys
\* of st (the order is left to the user agent).
KeyOrders(st) ==
    {ord \in [1 .. Cardinality(DOMAIN st) -> DOMAIN st] :
        \A i, j \in DOMAIN ord : ord[i] = ord[j] => i = j}

\* seq without its i-th element: the keys after a removed one move down by one.
RemoveAt(seq, i) == SubSeq(seq, 1, i - 1) \o SubSeq(seq, i + 1, Len(seq))

\* items.sort((a, b) => b.lastAccess - a.lastAccess): stable, descending.
RECURSIVE SortItems(_, _)
SortItems(items, st) ==
    IF items = << >> THEN << >>
    ELSE LET i == CHOOSE x \in DOMAIN items :
                    /\ \A y \in DOMAIN items :
                          st[items[x]].lastAccess >= st[items[y]].lastAccess
                    /\ \A y \in 1 .. (x - 1) :
                          st[items[y]].lastAccess < st[items[x]].lastAccess
         IN  <<items[i]>> \o SortItems(RemoveAt(items, i), st)

\* loadFromStorage at time t, on the freshly constructed (empty) store S, with
\* localStorage enumerating its keys in the order ord.  The loop runs while
\* i < localStorage.length and removes expired records as it goes; the sorted
\* items are then inserted at the head one by one, so the last one inserted
\* (the oldest access) ends at the head.
loadFromStorage(S, ord, t) ==
    LET RECURSIVE Scan(_, _, _, _)
        Scan(T, o, i, items) ==
            IF i > Len(o) THEN [s |-> T, items |-> items]
            ELSE LET k   == o[i]
                     rec == T.storage[k]
                 IN  IF ~Parses(rec) THEN Scan(T, o, i + 1, items)
                     ELSE IF t < rec.expiresAt
                     THEN Scan([T EXCEPT !.cache = MapSet(T.cache, k, Deserialize(rec))],
                               o, i + 1, Append(items, k))
                     ELSE Scan([T EXCEPT !.storage = MapDelete(T.storage, k)],
                               RemoveAt(o, i), i + 1, items)
        scanned == Scan(S, ord, 1, << >>)
        sorted  == SortItems(scanned.items, S.storage)
        RECURSIVE Build(_, _)
        Build(T, i) ==
            IF i > Len(sorted) THEN T
            ELSE Build(AddNodeAtHead(T, sorted[i]), i + 1)
    IN  Build(scanned.s, 1)

\* ------------------------------------------------------------ constructor

\* new YasmStore({persist: p}) in an environment where window and localStorage
\* exist (client) or not, over the localStorage content st enumerated in the
\* order ord, at time t.
ConstructAs(p, client, st, ord, t) ==
    LET S0 == [cache |-> EmptyMap, lruMap |-> EmptyMap, lruHead |-> Null,
               lruTail |-> Null, activeRequests |-> EmptyMap,
               refreshIntervals |-> EmptyMap, revalidationCallbacks |-> EmptyMap,
               focusListener |-> FALSE, onlineListener |-> FALSE, storage |-> st]
        S1 == IF p /\ client THEN loadFromStorage(S0, ord, t) ELSE S0
    IN  [S1 EXCEPT !.focusListener = client, !.onlineListener = client]

\* The constructor with the options and environment of the current store.
Construct(st, ord, t) == ConstructAs(persist, isClient, st, ord, t)

\* ------------------------------------------------------- calls and fetches

\* The result of the last call: its name, its key, whether it returned normally /
\* true, and the value returned (for set: the value given).
Ret(op, key, ok, val) == [op |-> op, key |-> key, ok |-> ok, val |-> val]

NoRet == Ret("other", Null, TRUE, 0)

\* A promise that does not come from preload or executeFetch (a direct setPromise).
ExternalPromise == MaxFetches + 1

\* History, read by the properties only:
\*   trace   the calls whose result the behaviour records in ret and pre (those
\*           the properties of the specification speak about); "order" turns the
\*           recording of the recency order on
\*   pre     what held when the call recorded in ret was made: the key had an
\*           entry, the entry was expired, what localStorage.setItem did, and
\*           (for clear(pattern)) the keys the pattern matches
\*   epoch   epoch[k] counts the operations other than preload called on key k
\*           (and the settlements of k's fetches) since a preload call of the
\*           current epoch was made: the preload calls of one key and one epoch
\*           are concurrent calls with no other operation on that key in between
\*   order   the keys by their most recent accepted set or successful get, the
\*           most recent first
NoPre == [had |-> FALSE, expired |-> FALSE, q |-> "ok", matched |-> {}]

InitHist(trace) == [trace |-> trace, pre |-> NoPre, epoch |-> EmptyMap, order |-> << >>]

Note(r) == IF r.op \in hist.trace THEN r ELSE NoRet

PreOf(op, k, q) ==
    IF op \in hist.trace
    THEN [had |-> MapHas(cache, k),
          expired |-> MapHas(cache, k) /\ now >= cache[k].expiresAt,
          q |-> IF Persisting THEN q ELSE "ok",
          matched |-> {}]
    ELSE NoPre

EpochOf(k) == IF k \in DOMAIN hist.epoch THEN hist.epoch[k] ELSE 0

HasCallerNow(k) ==
    \E c \in DOMAIN callers :
        /\ callers[c].via = "preload"
        /\ callers[c].key = k
        /\ callers[c].epoch = EpochOf(k)

Bump(h, ks) ==
    LET hit == {k \in ks : HasCallerNow(k)}
    IN  [h EXCEPT !.epoch = [k \in (DOMAIN h.epoch) \cup hit |->
                                IF k \in hit THEN EpochOf(k) + 1 ELSE EpochOf(k)]]

RECURSIVE Without(_, _)
Without(seq, k) ==
    IF seq = << >> THEN << >>
    ELSE IF Head(seq) = k THEN Without(Tail(seq), k)
    ELSE <<Head(seq)>> \o Without(Tail(seq), k)

Touch(h, k, touched) ==
    IF "order" \in h.trace /\ touched
    THEN [h EXCEPT !.order = <<k>> \o Without(h.order, k)]
    ELSE h

\* The history after a call op on key k.
After(op, k, q, touched) ==
    Touch(Bump([hist EXCEPT !.pre = PreOf(op, k, q)], {k}), k, touched)

AfterMany(ks) == Bump([hist EXCEPT !.pre = NoPre], ks)

\* ------------------------------------------------------------------ actions

Tick ==
    /\ now + TickMs <= MaxNow
    /\ now' = now + TickMs
    /\ ret' = NoRet
    /\ hist' = [hist EXCEPT !.pre = NoPre]
    /\ UNCHANGED <<storeVars, confVars, debugVars, fetches, callers, hooks>>

Get(k, q) ==
    LET r == get(Store, k, now, q)
    IN  /\ Commit(r.s)
        /\ ret' = Note(Ret("get", k, TRUE, r.val))
        /\ hist' = After("get", k, q, MapHas(cache, k) /\ now < cache[k].expiresAt)
        /\ UNCHANGED <<confVars, debugVars, now, fetches, callers, hooks>>

Set(k, v, ttl, q) ==
    LET r == set(Store, k, v, ttl, now, q)
    IN  /\ Commit(r.s)
        /\ ret' = Note(Ret("set", k, r.val, v))
        /\ hist' = After("set", k, q, r.val)
        /\ UNCHANGED <<confVars, debugVars, now, fetches, callers, hooks>>

Remove(k) ==
    /\ Commit(remove(Store, k))
    /\ ret' = Note(Ret("remove", k, TRUE, 0))
    /\ hist' = After("remove", k, "ok", FALSE)
    /\ UNCHANGED <<confVars, debugVars, now, fetches, callers, hooks>>

ClearPattern(matched) ==
    LET r == clearPattern(Store, matched)
    IN  /\ Commit(r.s)
        /\ ret' = Note(Ret("clearPattern", Null, TRUE, r.val))
        /\ hist' = [AfterMany(matched) EXCEPT !.pre.matched =
                        IF "clearPattern" \in hist.trace THEN matched ELSE {}]
        /\ UNCHANGED <<confVars, debugVars, now, fetches, callers, hooks>>

\* clearInterval / clearTimeout of a timer handle: the timer of the hook that
\* scheduled it (H[x].timeoutId) will not fire any more.
clearInterval(H, id) ==
    [x \in DOMAIN H |->
        IF H[x].timeoutId = id THEN [H[x] EXCEPT !.live = FALSE] ELSE H[x]]

RECURSIVE clearAllIntervals(_, _)
clearAllIntervals(H, ids) ==
    IF ids = {} THEN H
    ELSE LET id == CHOOSE x \in ids : TRUE
         IN  clearAllIntervals(clearInterval(H, id), ids \ {id})

ClearAll(ks) ==
    LET r == clearAll(Store)
    IN  /\ Commit(r.s)
        /\ hooks' = clearAllIntervals(hooks, {refreshIntervals[k] : k \in DOMAIN refreshIntervals})
        /\ ret' = Note(Ret("clear", Null, TRUE, r.val))
        /\ hist' = AfterMany(ks)
        /\ UNCHANGED <<confVars, debugVars, now, fetches, callers>>

SetPromise(k, ttl) ==
    LET r == setPromise(Store, k, ExternalPromise, ttl, now)
    IN  /\ Commit(r.s)
        /\ ret' = Note(Ret("setPromise", k, r.ok, 0))
        /\ hist' = After("setPromise", k, "ok", FALSE)
        /\ UNCHANGED <<confVars, debugVars, now, fetches, callers, hooks>>

ClearPromise(k) ==
    /\ Commit(clearPromise(Store, k))
    /\ ret' = Note(Ret("clearPromise", k, TRUE, 0))
    /\ hist' = After("clearPromise", k, "ok", FALSE)
    /\ UNCHANGED <<confVars, debugVars, now, fetches, callers, hooks>>

\* A fetch: its key, who started it (preload, or the executeFetch of hook `by`),
\* the ttl its result is stored with, its state, its value once resolved,
\* whether the code that started it got as far as registering its continuation,
\* and (history) the epoch it was started in and whether the key had no entry
\* then.
Fetch(k, kind, by, ttl, cont, e) ==
    [key |-> k, kind |-> kind, by |-> by, ttl |-> ttl, state |-> "pending",
     value |-> Undefined, cont |-> cont, epoch |-> e,
     fresh |-> ~MapHas(cache, k)]

\* A caller: the key, the fetch whose outcome it awaits, the code that awaits
\* (preload, or the load / refresh / revalidate of hook `hook`), whether it
\* joined a request that was already active, what it has received so far
\* ("threw": the call failed before awaiting), and (history) its epoch.
Caller(k, f, via, h, joined, status, e) ==
    [key |-> k, fetch |-> f, via |-> via, hook |-> h, joined |-> joined,
     status |-> status, val |-> Undefined, epoch |-> e]

\* preload(key, fetcher, ttl) up to its await.
Preload(k, ttl) ==
    /\ Len(callers) < MaxCallers
    /\ IF hasActiveRequest(Store, k)
       THEN /\ callers' = Append(callers,
                  Caller(k, getActiveRequest(Store, k), "preload", Null, TRUE,
                         "waiting", EpochOf(k)))
            /\ UNCHANGED <<storeVars, fetches>>
       ELSE /\ Len(fetches) < MaxFetches
            /\ LET f  == Len(fetches) + 1
                   S1 == setActiveRequest(Store, k, f)
                   sp == setPromise(S1, k, f, ttl, now)
               IN  /\ Commit(sp.s)
                   /\ fetches' = Append(fetches,
                          Fetch(k, "preload", Null, ttl, sp.ok, EpochOf(k)))
                   /\ callers' = Append(callers,
                          Caller(k, f, "preload", Null, FALSE,
                                 IF sp.ok THEN "waiting" ELSE "threw", EpochOf(k)))
    /\ ret' = Note(Ret("preload", k, TRUE, 0))
    /\ hist' = [hist EXCEPT !.pre = NoPre]
    /\ UNCHANGED <<confVars, debugVars, now, hooks>>

\* Mutant of PreloadResolve: a fetch whose registration was removed meanwhile
\* is treated as cancelled and its result is not written.
PreloadResolve_Cancelled(f, v, q) ==
    /\ f \in DOMAIN fetches
    /\ fetches[f].state = "pending"
    /\ fetches[f].kind = "preload"
    /\ LET k  == fetches[f].key
           S1 == set(Store, k, v, fetches[f].ttl, now, q).s
           S2 == deleteActiveRequest(S1, k)
       IN  /\ Commit(IF fetches[f].cont /\ MapGet(activeRequests, k) = f
                     THEN S2 ELSE Store)
           /\ fetches' = [fetches EXCEPT ![f].state = "resolved", ![f].value = v]
           /\ ret' = Note(Ret("resolve", k, TRUE, f))
           /\ hist' = After("resolve", k, q, FALSE)
    /\ UNCHANGED <<confVars, debugVars, now, callers, hooks>>

\* The fetch f of a preload resolves with v: the rest of preload runs.
PreloadResolve(f, v, q) ==
    /\ f \in DOMAIN fetches
    /\ fetches[f].state = "pending"
    /\ fetches[f].kind = "preload"
    /\ LET k  == fetches[f].key
           S1 == set(Store, k, v, fetches[f].ttl, now, q).s
           S2 == deleteActiveRequest(S1, k)
       IN  /\ Commit(IF fetches[f].cont THEN S2 ELSE Store)
           /\ fetches' = [fetches EXCEPT ![f].state = "resolved", ![f].value = v]
           /\ ret' = Note(Ret("resolve", k, TRUE, f))
           /\ hist' = After("resolve", k, q, FALSE)
    /\ UNCHANGED <<confVars, debugVars, now, callers, hooks>>

\* Mutant of PreloadReject: the catch block forgets the request and keeps the
\* entry.
PreloadReject_KeepsEntry(f) ==
    /\ f \in DOMAIN fetches
    /\ fetches[f].state = "pending"
    /\ fetches[f].kind = "preload"
    /\ Commit(deleteActiveRequest(Store, fetches[f].key))
    /\ fetches' = [fetches EXCEPT ![f].state = "rejected"]
    /\ ret' = Note(Ret("reject", fetches[f].key, FALSE, f))
    /\ hist' = After("reject", fetches[f].key, "ok", FALSE)
    /\ UNCHANGED <<confVars, debugVars, now, callers, hooks>>

\* The fetch f of a preload rejects: preload's catch block runs.
PreloadReject(f) ==
    /\ f \in DOMAIN fetches
    /\ fetches[f].state = "pending"
    /\ fetches[f].kind = "preload"
    /\ LET k  == fetches[f].key
           S1 == remove(Store, k)
           S2 == deleteActiveRequest(S1, k)
       IN  /\ Commit(IF fetches[f].cont THEN S2 ELSE Store)
           /\ fetches' = [fetches EXCEPT ![f].state = "rejected"]
           /\ ret' = Note(Ret("reject", k, FALSE, f))
           /\ hist' = After("reject", k, "ok", FALSE)
    /\ UNCHANGED <<confVars, debugVars, now, callers, hooks>>

\* A preload caller awaiting a settled fetch receives its outcome.
Observe(c) ==
    /\ c \in DOMAIN callers
    /\ callers[c].status = "waiting"
    /\ callers[c].via = "preload"
    /\ callers[c].fetch \in DOMAIN fetches
    /\ fetches[callers[c].fetch].state # "pending"
    /\ LET f == fetches[callers[c].fetch]
       IN  /\ callers' = [callers EXCEPT
                 ![c].status = IF f.state = "resolved" THEN "value" ELSE "error",
                 ![c].val = f.value]
           /\ ret' = Note(Ret("observe", f.key, f.state = "resolved", f.value))
    /\ hist' = [hist EXCEPT !.pre = NoPre]
    /\ UNCHANGED <<storeVars, confVars, debugVars, now, fetches, hooks>>

\* ------------------------------------------------------------ useData hook

\* A useData(key, fetcher) instance with the default options (no suspense, no
\* initialData, revalidation on focus and reconnect, ttl unset) and with or
\* without a refreshInterval: its mountedRef, the cachedData of its last
\* render, its React state, and the timeoutId of its auto-refresh effect with
\* whether that timer is still due to fire.
NewHook ==
    [phase |-> "new", key |-> Null, cached |-> Undefined, data |-> Undefined,
     loading |-> FALSE, error |-> FALSE, isFromCache |-> FALSE,
     refreshMs |-> FALSE, timeoutId |-> Null, live |-> FALSE]

InitHooks == [h \in 1 .. NumHooks |-> NewHook]

Mounted(H, h) == H[h].phase = "mounted"

HookTtl == NumTtl(DefaultHookTtl)

addRevalidationCallback(S, key, cb) ==
    LET cur == IF MapHas(S.revalidationCallbacks, key)
               THEN S.revalidationCallbacks[key] ELSE << >>
    IN  [S EXCEPT !.revalidationCallbacks =
            MapSet(S.revalidationCallbacks, key,
                   IF \E i \in DOMAIN cur : cur[i] = cb THEN cur ELSE Append(cur, cb))]

removeRevalidationCallback_KeepsEmptySet(S, key, cb) ==
    IF ~MapHas(S.revalidationCallbacks, key) THEN S
    ELSE [S EXCEPT !.revalidationCallbacks =
             MapSet(S.revalidationCallbacks, key,
                    Without(S.revalidationCallbacks[key], cb))]

removeRevalidationCallback(S, key, cb) ==
    IF ~MapHas(S.revalidationCallbacks, key) THEN S
    ELSE LET left == Without(S.revalidationCallbacks[key], cb)
         IN  [S EXCEPT !.revalidationCallbacks =
                 IF left = << >> THEN MapDelete(S.revalidationCallbacks, key)
                 ELSE MapSet(S.revalidationCallbacks, key, left)]

clearRefreshInterval(S, key) ==
    [S EXCEPT !.refreshIntervals = MapDelete(S.refreshIntervals, key)]

\* The store's timer methods act on the store and on the timers, here the
\* pair P = [s, h] of the store and the hooks that own the timers.
clearRefreshIntervalOf(P, key) ==
    IF MapHas(P.s.refreshIntervals, key)
    THEN [s |-> clearRefreshInterval(P.s, key),
          h |-> clearInterval(P.h, P.s.refreshIntervals[key])]
    ELSE P

setRefreshInterval_KeepsOldTimer(P, key, interval) ==
    [P EXCEPT !.s.refreshIntervals = MapSet(@, key, interval)]

setRefreshInterval(P, key, interval) ==
    LET Q == clearRefreshIntervalOf(P, key)
    IN  [Q EXCEPT !.s.refreshIntervals = MapSet(@, key, interval)]

\* setTimeout(refreshLoop, refreshMs) of hook h followed by
\* storage.setRefreshInterval(key, timeoutId): a handle no earlier timer of
\* the page has.
NextTimeoutId(H, h) == IF H[h].timeoutId = 2 * h THEN 2 * h + 1 ELSE 2 * h

Schedule(P, h, key) ==
    LET id == NextTimeoutId(P.h, h)
        P1 == [P EXCEPT !.h[h].timeoutId = id, !.h[h].live = TRUE]
    IN  setRefreshInterval(P1, key, id)

\* The state a call threads through: the store, the fetches, the callers, and
\* ok = FALSE when the call would exceed a bound of the model.
Ctx(S, F, C, ok) == [s |-> S, fetches |-> F, callers |-> C, ok |-> ok]

\* executeFetch of hook h for key k, up to its await, called from `via`.
executeFetch(X, k, h, via, t) ==
    IF Len(X.callers) >= MaxCallers THEN [X EXCEPT !.ok = FALSE]
    ELSE IF hasActiveRequest(X.s, k)
    THEN [X EXCEPT !.callers = Append(@,
              Caller(k, getActiveRequest(X.s, k), via, h, TRUE, "waiting", EpochOf(k)))]
    ELSE IF Len(X.fetches) >= MaxFetches THEN [X EXCEPT !.ok = FALSE]
    ELSE
      LET f  == Len(X.fetches) + 1
          S1 == setActiveRequest(X.s, k, f)
          S2 == setPromise(S1, k, f, HookTtl, t).s
      IN  Ctx(S2,
              Append(X.fetches, Fetch(k, "hook", h, HookTtl, TRUE, EpochOf(k))),
              Append(X.callers, Caller(k, f, via, h, FALSE, "waiting", EpochOf(k))),
              X.ok)

CommitCtx(X) ==
    /\ X.ok
    /\ Commit(X.s)
    /\ fetches' = X.fetches
    /\ callers' = X.callers

\* The first render of hook h for key k and its effects: the initial load,
\* the auto-refresh effect when the hook has a refreshInterval, and the
\* registration of handleRevalidate.
HookMountWith(h, k, refreshMs) ==
    /\ hooks[h].phase = "new"
    /\ LET r  == get(Store, k, now, "ok")
           X0 == Ctx(r.s, fetches, callers, TRUE)
           X1 == IF r.val = Undefined THEN executeFetch(X0, k, h, "load", now) ELSE X0
           H1 == [hooks EXCEPT ![h] =
                 [NewHook EXCEPT !.phase = "mounted", !.key = k, !.cached = r.val,
                                 !.data = r.val, !.loading = r.val = Undefined,
                                 !.isFromCache = r.val # Undefined,
                                 !.refreshMs = refreshMs]]
       IN  \E P0 \in {[s |-> X1.s, h |-> H1]} :
           \E P1 \in {IF refreshMs
                      THEN Schedule(clearRefreshIntervalOf(P0, k), h, k)
                      ELSE P0} :
              /\ CommitCtx([X1 EXCEPT !.s = addRevalidationCallback(P1.s, k, h)])
              /\ hooks' = P1.h
    /\ ret' = Note(Ret("mount", k, TRUE, h))
    /\ hist' = After("mount", k, "ok", FALSE)
    /\ UNCHANGED <<confVars, debugVars, now>>

HookMount(h, k) == HookMountWith(h, k, FALSE)

\* The timer of hook h fires: refreshLoop runs up to its await.
TimerFire(h) ==
    /\ hooks[h].live
    /\ LET k == hooks[h].key
           X == IF Mounted(hooks, h)
                THEN executeFetch(Ctx(Store, fetches, callers, TRUE), k, h,
                                  "interval", now)
                ELSE Ctx(Store, fetches, callers, TRUE)
       IN  /\ CommitCtx(X)
           /\ hooks' = [hooks EXCEPT ![h].live = FALSE]
           /\ ret' = Note(Ret("timer", k, TRUE, h))
           /\ hist' = After("timer", k, "ok", FALSE)
    /\ UNCHANGED <<confVars, debugVars, now>>

\* A later render of hook h: the render reads the cache, and the initial-load
\* effect runs again when cachedData changed.
HookRender(h) ==
    /\ Mounted(hooks, h)
    /\ LET k  == hooks[h].key
           r  == get(Store, k, now, "ok")
           X0 == Ctx(r.s, fetches, callers, TRUE)
           reload == r.val # hooks[h].cached /\ r.val = Undefined
           X1 == IF reload THEN executeFetch(X0, k, h, "load", now) ELSE X0
       IN  /\ CommitCtx(X1)
           /\ hooks' = [hooks EXCEPT ![h].cached = r.val,
                                     ![h].loading = IF reload THEN TRUE ELSE @,
                                     ![h].isFromCache = IF reload THEN FALSE ELSE @]
           /\ ret' = Note(Ret("render", k, TRUE, h))
           /\ hist' = After("render", k, "ok", FALSE)
    /\ UNCHANGED <<confVars, debugVars, now>>

\* refresh() of hook h.
HookRefresh(h) ==
    /\ Mounted(hooks, h)
    /\ LET k == hooks[h].key
           X == executeFetch(Ctx(Store, fetches, callers, TRUE), k, h, "refresh", now)
       IN  /\ CommitCtx(X)
           /\ hooks' = [hooks EXCEPT ![h].loading = TRUE, ![h].error = FALSE]
           /\ ret' = Note(Ret("refresh", k, TRUE, h))
           /\ hist' = After("refresh", k, "ok", FALSE)
    /\ UNCHANGED <<confVars, debugVars, now>>

\* clear() of hook h.
HookClear(h) ==
    /\ Mounted(hooks, h)
    /\ Commit(remove(Store, hooks[h].key))
    /\ hooks' = [hooks EXCEPT ![h].data = Undefined, ![h].isFromCache = FALSE,
                              ![h].error = FALSE]
    /\ ret' = Note(Ret("hookClear", hooks[h].key, TRUE, h))
    /\ hist' = After("hookClear", hooks[h].key, "ok", FALSE)
    /\ UNCHANGED <<confVars, debugVars, now, fetches, callers>>

\* Hook h unmounts: the cleanups of its effects run (the auto-refresh effect's
\* clearTimeout(timeoutId) and clearRefreshInterval, the removal of
\* handleRevalidate, and the cleanup effect), and its React state is dropped
\* with the component.
HookUnmount(h) ==
    /\ Mounted(hooks, h)
    /\ LET k == hooks[h].key
       IN  /\ \E P1 \in {IF hooks[h].refreshMs
                          THEN clearRefreshIntervalOf(
                                  [s |-> Store,
                                   h |-> clearInterval(hooks, hooks[h].timeoutId)], k)
                          ELSE [s |-> Store, h |-> hooks]} :
              \E S1 \in {removeRevalidationCallback(P1.s, k, h)} :
              \E S2 \in {IF hasActiveRequest(S1, k) THEN deleteActiveRequest(S1, k)
                         ELSE S1} :
              \E P3 \in {clearRefreshIntervalOf([s |-> S2, h |-> P1.h], k)} :
                 /\ Commit(P3.s)
                 /\ hooks' = [P3.h EXCEPT ![h] =
                                 [NewHook EXCEPT !.phase = "unmounted",
                                                 !.key = hooks[h].key]]
           /\ ret' = Note(Ret("unmount", k, TRUE, h))
           /\ hist' = After("unmount", k, "ok", FALSE)
    /\ UNCHANGED <<confVars, debugVars, now, fetches, callers>>

\* Callbacks given to addRevalidationCallback directly, besides the hooks'
\* handleRevalidate (named by the hook): one that returns and one that throws.
PlainCallback == NumHooks + 1

ThrowingCallback == NumHooks + 2

\* The window's focus / online event: the installed listener calls the
\* registered callbacks key by key, with no try around a call.  A hook's
\* callback calls executeFetch(true), which is async and does not throw.  R is
\* the call state x, the callbacks invoked so far, and whether one threw (which
\* ends the listener).  When the store's listener is not installed the event
\* reaches no callback.
RECURSIVE RunCallbacks(_, _, _)
RunCallbacks(R, k, cbs) ==
    IF cbs = << >> \/ R.threw THEN R
    ELSE LET cb == Head(cbs)
             R1 == [x |-> IF cb \in 1 .. NumHooks
                          THEN executeFetch(R.x, k, cb, "revalidate", now)
                          ELSE R.x,
                    invoked |-> Append(R.invoked, <<k, cb>>),
                    threw |-> cb = ThrowingCallback]
         IN  RunCallbacks(R1, k, Tail(cbs))

RECURSIVE RunAllCallbacks(_, _)
RunAllCallbacks(R, ks) ==
    IF ks = {} \/ R.threw THEN R
    ELSE LET k == CHOOSE x \in ks : TRUE
         IN  RunAllCallbacks(RunCallbacks(R, k, R.x.s.revalidationCallbacks[k]),
                             ks \ {k})

WindowEvent(installed, name) ==
    /\ LET R == RunAllCallbacks([x |-> Ctx(Store, fetches, callers, TRUE),
                                 invoked |-> << >>, threw |-> FALSE],
                                IF installed THEN DOMAIN revalidationCallbacks
                                ELSE {})
       IN  /\ CommitCtx(R.x)
           /\ ret' = Note(Ret(name, Null, ~R.threw, R.invoked))
    /\ hist' = [hist EXCEPT !.pre = NoPre]
    /\ UNCHANGED <<confVars, debugVars, now, hooks>>

FocusEvent == WindowEvent(focusListener, "focus")

OnlineEvent == WindowEvent(onlineListener, "online")

\* storage.addRevalidationCallback(k, cb) and removeRevalidationCallback(k, cb)
\* called by the application.
AddCallback(k, cb) ==
    /\ Commit(addRevalidationCallback(Store, k, cb))
    /\ ret' = Note(Ret("addCallback", k, TRUE, cb))
    /\ hist' = [hist EXCEPT !.pre = NoPre]
    /\ UNCHANGED <<confVars, debugVars, now, fetches, callers, hooks>>

RemoveCallback(k, cb) ==
    /\ Commit(removeRevalidationCallback(Store, k, cb))
    /\ ret' = Note(Ret("removeCallback", k, TRUE, cb))
    /\ hist' = [hist EXCEPT !.pre = NoPre]
    /\ UNCHANGED <<confVars, debugVars, now, fetches, callers, hooks>>

\* The fetch f of an executeFetch resolves with v: its then-handler runs.
HookResolve(f, v, q) ==
    /\ f \in DOMAIN fetches
    /\ fetches[f].state = "pending"
    /\ fetches[f].kind = "hook"
    /\ LET k  == fetches[f].key
           h  == fetches[f].by
           S1 == IF v # Undefined THEN set(Store, k, v, fetches[f].ttl, now, q).s
                 ELSE Store
       IN  /\ Commit(deleteActiveRequest(S1, k))
           /\ hooks' = IF v # Undefined /\ Mounted(hooks, h)
                       THEN [hooks EXCEPT ![h].data = v, ![h].error = FALSE,
                                          ![h].isFromCache = FALSE]
                       ELSE hooks
           /\ fetches' = [fetches EXCEPT ![f].state = "resolved", ![f].value = v]
           /\ ret' = Note(Ret("resolve", k, TRUE, f))
           /\ hist' = After("resolve", k, q, FALSE)
    /\ UNCHANGED <<confVars, debugVars, now, callers>>

\* The fetch f of an executeFetch rejects: its catch-handler runs.
HookReject(f, q) ==
    /\ f \in DOMAIN fetches
    /\ fetches[f].state = "pending"
    /\ fetches[f].kind = "hook"
    /\ LET k  == fetches[f].key
           h  == fetches[f].by
           S1 == deleteActiveRequest(Store, k)
           g  == get(S1, k, now, q)
       IN  /\ Commit(IF Mounted(hooks, h) THEN g.s ELSE S1)
           /\ hooks' = IF Mounted(hooks, h) /\ g.val = Undefined
                       THEN [hooks EXCEPT ![h].error = TRUE] ELSE hooks
           /\ fetches' = [fetches EXCEPT ![f].state = "rejected"]
           /\ ret' = Note(Ret("reject", k, FALSE, f))
           /\ hist' = After("reject", k, q, FALSE)
    /\ UNCHANGED <<confVars, debugVars, now, callers>>

\* The load / refresh / revalidation of a hook that awaits a settled fetch
\* continues.
HookObserve(c, q) ==
    /\ c \in DOMAIN callers
    /\ callers[c].status = "waiting"
    /\ callers[c].via # "preload"
    /\ callers[c].fetch \in DOMAIN fetches
    /\ fetches[callers[c].fetch].state # "pending"
    /\ LET me  == callers[c]
           f   == fetches[me.fetch]
           h   == me.hook
           k   == me.key
           up  == Mounted(hooks, h)
           \* executeFetch's catch around the awaited active request
           g1  == get(Store, k, now, q)
           S1  == IF f.state = "rejected" /\ me.joined THEN g1.s ELSE Store
           ok  == f.state = "resolved" \/ (me.joined /\ g1.val # Undefined)
           fresh == IF f.state = "resolved" THEN f.value ELSE g1.val
           \* the caller's own catch block: the stale cache
           g2  == get(S1, k, now, q)
           stale == ~ok /\ up /\ me.via \notin {"revalidate", "interval"}
           S2  == IF stale THEN g2.s ELSE S1
           hk  == hooks[h]
           hk1 == IF ~up THEN hk
                  ELSE IF ok
                  THEN CASE me.via = "load" ->
                              [hk EXCEPT !.data = fresh, !.isFromCache = FALSE,
                                         !.error = FALSE, !.loading = FALSE]
                         [] me.via = "refresh" ->
                              [hk EXCEPT !.data = fresh, !.isFromCache = FALSE,
                                         !.loading = FALSE]
                         [] OTHER ->
                              [hk EXCEPT !.data = fresh, !.isFromCache = FALSE,
                                         !.error = FALSE]
                  ELSE IF me.via = "revalidate" THEN hk
                  ELSE IF me.via = "interval" THEN [hk EXCEPT !.error = TRUE]
                  ELSE [hk EXCEPT !.data = IF g2.val # Undefined THEN g2.val ELSE @,
                                  !.isFromCache = IF g2.val # Undefined THEN TRUE ELSE @,
                                  !.error = TRUE, !.loading = FALSE]
       IN  \* refreshLoop schedules its next run, after a success or a failure
           /\ \E P \in {[s |-> S2, h |-> [hooks EXCEPT ![h] = hk1]]} :
              \E P1 \in {IF up /\ me.via = "interval" THEN Schedule(P, h, k)
                         ELSE P} :
                 /\ Commit(P1.s)
                 /\ hooks' = P1.h
           /\ callers' = [callers EXCEPT ![c].status = IF ok THEN "value" ELSE "error",
                                         ![c].val = IF ok THEN fresh ELSE Undefined]
           /\ ret' = Note(Ret("observe", k, ok, fresh))
           /\ hist' = After("observe", k, q, FALSE)
    /\ UNCHANGED <<confVars, debugVars, now, fetches>>

\* The page is loaded again: a new store is constructed over the same
\* localStorage; the fetches and callers of the old page are gone.
Reload ==
    /\ \E ord \in KeyOrders(storage) : Commit(Construct(storage, ord, now))
    /\ fetches' = << >>
    /\ callers' = << >>
    /\ hooks' = InitHooks
    /\ hist' = InitHist(hist.trace)
    /\ ret' = Note(Ret("construct", Null, TRUE, 0))
    /\ UNCHANGED <<confVars, debugVars, now>>

\* The store's prefix (the default), and the prefix of a second store that
\* shares the localStorage.
Prefix == <<"y", "a", "s", "m", "_">>

OtherPrefix == <<"y", "a", "s", "m", "_", "p", "e", "r", "s", "i", "s", "t", "_">>

\* name.startsWith(p)
StartsWith(name, p) == Len(name) >= Len(p) /\ SubSeq(name, 1, Len(p)) = p

\* The key this store reads the localStorage name yasm_persist_k as:
\* name.replace(prefix, "") = persist_k.
ForeignKey == ClearNumKeys + 1

\* The second store sets its key k: it writes the record under OtherPrefix + k.
\* storage holds the localStorage records whose name starts with this store's
\* prefix, by the rest of the name.
OtherStoreSet ==
    LET name == OtherPrefix \o <<"k">>
        rec  == [data |-> 2, lastAccess |-> now, ttl |-> 3600000,
                 expiresAt |-> now + 3600000, hits |-> 0, size |-> estimateSize(2)]
    IN  /\ storage' = IF StartsWith(name, Prefix)
                      THEN MapSet(storage, ForeignKey, rec) ELSE storage
        /\ ret' = NoRet
        /\ hist' = [hist EXCEPT !.pre = NoPre]
        /\ UNCHANGED <<cache, lruMap, lruHead, lruTail, activeRequests,
                       refreshIntervals, revalidationCallbacks, focusListener,
                       onlineListener, confVars, debugVars, now, fetches, callers, hooks>>

\* A new store is constructed with other options, or after window has been
\* removed or restored (server-side rendering), over the same localStorage.
Reconstruct(p, client) ==
    /\ \E ord \in KeyOrders(storage) :
          Commit(ConstructAs(p, client, storage, ord, now))
    /\ persist' = p
    /\ isClient' = client
    /\ fetches' = << >>
    /\ callers' = << >>
    /\ hooks' = InitHooks
    /\ hist' = InitHist(hist.trace)
    /\ ret' = Note(Ret("construct", Null, TRUE, 0))
    /\ UNCHANGED <<maxSize, debug, debugVars, now>>

\* Another script of the page writes a value that is not JSON under the
\* store's prefix.
StoreCorrupt(k) ==
    /\ storage' = MapSet(storage, k, CorruptRecord)
    /\ ret' = NoRet
    /\ hist' = [hist EXCEPT !.pre = NoPre]
    /\ UNCHANGED <<cache, lruMap, lruHead, lruTail, activeRequests, refreshIntervals,
                   revalidationCallbacks, focusListener, onlineListener,
                   confVars, debugVars, now, fetches, callers, hooks>>

\* ------------------------------------------------------------ debug monitor

MAX_OPERATIONS == 20

addOperation_Unbounded(ops, operation) == <<operation>> \o ops

addOperation(ops, operation) ==
    LET unshifted == <<operation>> \o ops
    IN  IF Len(unshifted) > MAX_OPERATIONS
        THEN SubSeq(unshifted, 1, MAX_OPERATIONS) ELSE unshifted

\* trackCacheHit / trackCacheMiss / trackCacheSet / trackCacheError (type) for
\* key k.  The result notes whether the call recorded anything and how many
\* operations the log dropped.
Track(type, k) ==
    /\ debugState' =
          IF NODE_ENV # "development" THEN debugState
          ELSE [debugState EXCEPT !.operations =
                   addOperation(@, [key |-> k, type |-> type, timestamp |-> now])]
    /\ ret' = Note(Ret("track", k, NODE_ENV = "development",
                       [type |-> type,
                        dropped |-> IF NODE_ENV = "development"
                                    THEN Len(debugState.operations) + 1
                                            - Len(debugState'.operations)
                                    ELSE 0]))
    /\ hist' = [hist EXCEPT !.pre = NoPre]
    /\ UNCHANGED <<storeVars, confVars, NODE_ENV, now, fetches, callers, hooks>>

clearDebugOperations ==
    /\ debugState' = [operations |-> << >>, revalidatingKeys |-> {}]
    /\ ret' = NoRet
    /\ hist' = [hist EXCEPT !.pre = NoPre]
    /\ UNCHANGED <<storeVars, confVars, NODE_ENV, now, fetches, callers, hooks>>

\* ----------------------------------------------------------- specification

InitWith(c, trace) ==
    /\ persist = c.persist
    /\ isClient = c.isClient
    /\ maxSize = c.maxSize
    /\ debug = c.debug
    /\ now = 0
    /\ cache = EmptyMap
    /\ lruMap = EmptyMap
    /\ lruHead = Null
    /\ lruTail = Null
    /\ activeRequests = EmptyMap
    /\ refreshIntervals = EmptyMap
    /\ revalidationCallbacks = EmptyMap
    /\ focusListener = c.isClient
    /\ onlineListener = c.isClient
    /\ storage = EmptyMap
    /\ fetches = << >>
    /\ callers = << >>
    /\ hooks = InitHooks
    /\ debugState = [operations |-> << >>, revalidatingKeys |-> {}]
    /\ NODE_ENV = IF c.debug THEN "development" ELSE "production"
    /\ hist = InitHist(trace)
    /\ ret = NoRet

Ttl0   == NumTtl(0)
Ttl6s  == StrTtl(<<"6", "s">>)
Ttl1h  == StrTtl(<<"1", "h">>)
TtlBad == StrTtl(<<"5", "x">>)

\* --- Spec: the store's synchronous methods over a localStorage whose writes
\* succeed, with persistence on or off.

Configs ==
    [persist : BOOLEAN, isClient : {TRUE}, maxSize : 1 .. MaxMaxSize, debug : {FALSE}]

Init == \E c \in Configs : InitWith(c, {"get", "set"})

Next ==
    \/ Tick
    \/ \E k \in Keys : Get(k, "ok")
    \/ \E k \in Keys, v \in {1, 30}, ttl \in {Ttl0, Ttl6s, TtlBad} : Set(k, v, ttl, "ok")
    \/ \E k \in Keys : Remove(k)
    \/ \E m \in (SUBSET Keys) \ {{}} : ClearPattern(m)
    \/ ClearAll(Keys)
    \/ \E k \in Keys : SetPromise(k, Ttl6s)
    \/ \E k \in Keys : ClearPromise(k)
    \/ Reload

Spec == Init /\ [][Next]_vars

\* --- SpecQuota: a persisting store whose localStorage writes may fail.

QuotaInit ==
    \E c \in [persist : {TRUE}, isClient : {TRUE}, maxSize : 1 .. MaxMaxSize,
              debug : {FALSE}] : InitWith(c, {"get", "set"})

QuotaNext ==
    \/ Tick
    \/ \E k \in Keys, q \in SaveOutcomes : Get(k, q)
    \/ \E k \in Keys, v \in {1, 2}, q \in SaveOutcomes : Set(k, v, Ttl6s, q)
    \/ \E k \in Keys : Remove(k)

SpecQuota == QuotaInit /\ [][QuotaNext]_vars

\* --- SpecSave: sets and throttled gets of entries and placeholders whose
\* localStorage write may fail with QuotaExceededError, once or twice.

SaveInit ==
    \E c \in [persist : {TRUE}, isClient : {TRUE}, maxSize : {MaxMaxSize},
              debug : {FALSE}] : InitWith(c, {"get", "set"})

SaveNext ==
    \/ Tick
    \/ \E k \in Keys, q \in {"ok", "quota1", "quota2"} : Get(k, q)
    \/ \E k \in Keys, q \in {"ok", "quota1", "quota2"} : Set(k, 1, Ttl1h, q)
    \/ \E k \in Keys : SetPromise(k, Ttl1h)

SpecSave == SaveInit /\ [][SaveNext]_vars

\* --- SpecLRU: set and get of unexpired keys on a store of maxSize LruMaxSize.

LruInit ==
    \E c \in [persist : {TRUE}, isClient : {TRUE}, maxSize : {LruMaxSize},
              debug : {FALSE}] : InitWith(c, {"get", "set", "order"})

LruNext ==
    \/ Tick
    \/ \E k \in LruKeys : Get(k, "ok")
    \/ \E k \in LruKeys : Set(k, 1, Ttl1h, "ok")

SpecLRU == LruInit /\ [][LruNext]_vars

\* --- SpecPreload: preload calls and the settlement of their fetches, among
\* other calls on the store (in memory only, within one clock reading).

PreloadInit ==
    \E c \in [persist : {FALSE}, isClient : {TRUE}, maxSize : 1 .. MaxMaxSize,
              debug : {FALSE}] :
        InitWith(c, {"preload", "resolve", "reject", "observe"})

PreloadNext ==
    \/ \E k \in Keys : Get(k, "ok")
    \/ \E k \in Keys : Set(k, 2, Ttl6s, "ok")
    \/ \E k \in Keys : Remove(k)
    \/ \E k \in Keys : Preload(k, Ttl6s)
    \/ \E f \in 1 .. MaxFetches, v \in {1, 30} : PreloadResolve(f, v, "ok")
    \/ \E f \in 1 .. MaxFetches : PreloadReject(f)
    \/ \E c \in 1 .. MaxCallers : Observe(c)

SpecPreload == PreloadInit /\ [][PreloadNext]_vars

\* --- SpecPreloadQuota: preload on a persisting store whose localStorage
\* writes may fail.

PreloadQuotaInit ==
    \E c \in [persist : {TRUE}, isClient : {TRUE}, maxSize : {MaxMaxSize},
              debug : {FALSE}] :
        InitWith(c, {"resolve", "reject", "observe"})

PreloadQuotaNext ==
    \/ \E k \in Keys : Get(k, "ok")
    \/ \E k \in Keys : Set(k, 2, Ttl6s, "ok")
    \/ \E k \in Keys : Preload(k, Ttl6s)
    \/ \E f \in 1 .. MaxFetches, q \in SaveOutcomes : PreloadResolve(f, 1, q)
    \/ \E f \in 1 .. MaxFetches : PreloadReject(f)
    \/ \E c \in 1 .. MaxCallers : Observe(c)

SpecPreloadQuota == PreloadQuotaInit /\ [][PreloadQuotaNext]_vars

\* --- SpecHits: gets over time, in and out of debug mode, on a persisting
\* store whose throttled writes may fail.

HitsInit ==
    \E c \in [persist : {TRUE}, isClient : {TRUE}, maxSize : {MaxMaxSize},
              debug : BOOLEAN] : InitWith(c, {"get", "set"})

HitsNext ==
    \/ Tick
    \/ \E k \in Keys, q \in SaveOutcomes : Get(k, q)
    \/ \E k \in Keys : Set(k, 1, Ttl1h, "ok")
    \/ \E k \in Keys : SetPromise(k, Ttl1h)
    \/ \E k \in Keys : Remove(k)

SpecHits == HitsInit /\ [][HitsNext]_vars

\* --- SpecPromise: setPromise and clearPromise among sets and gets over time.

PromiseInit ==
    \E c \in [persist : BOOLEAN, isClient : {TRUE}, maxSize : {MaxMaxSize},
              debug : {FALSE}] : InitWith(c, {"setPromise", "clearPromise"})

PromiseNext ==
    \/ Tick
    \/ \E k \in Keys : Get(k, "ok")
    \/ \E k \in Keys : Set(k, 1, Ttl1h, "ok")
    \/ \E k \in Keys, ttl \in {Ttl6s, Ttl1h} : SetPromise(k, ttl)
    \/ \E k \in Keys : ClearPromise(k)

SpecPromise == PromiseInit /\ [][PromiseNext]_vars

\* --- SpecLoad: page loads and clear() over a localStorage holding valid,
\* expired and corrupt records under the prefix, and records of a second store.

LoadInit ==
    \E c \in [persist : {TRUE}, isClient : {TRUE}, maxSize : {ClearNumKeys},
              debug : {FALSE}] : InitWith(c, {"construct", "clear"})

LoadNext ==
    \/ Tick
    \/ \E k \in Keys, ttl \in {Ttl6s, Ttl1h} : Set(k, 1, ttl, "ok")
    \/ \E k \in Keys : StoreCorrupt(k)
    \/ OtherStoreSet
    \/ ClearAll(Keys)
    \/ Reload

SpecLoad == LoadInit /\ [][LoadNext]_vars

\* --- sequences of calls on a new store

\* One call of a script: set(k, 1, "6s"), get(k), remove(k), clear(), or a wait
\* of MaxNow ms (the TTL has elapsed after it).
CallKinds == {"set", "get", "remove"}

Calls == (CallKinds \X Keys) \cup {<<"clear", Null>>, <<"wait", Null>>}

CallSeqs(n) == UNION {[1 .. m -> Calls] : m \in 0 .. n}

\* One call c on store S at time t: the store after it and the value returned.
ApplyCall(S, t, c) ==
    CASE c[1] = "set"    -> set(S, c[2], 1, Ttl6s, t, "ok")
      [] c[1] = "get"    -> get(S, c[2], t, "ok")
      [] c[1] = "remove" -> [s |-> remove(S, c[2]), val |-> TRUE]
      [] c[1] = "clear"  -> clearAll(S)
      [] OTHER           -> [s |-> S, val |-> Null]

\* The values the calls return, made one after the other on store S from time t
\* on, over a localStorage whose writes succeed.
RECURSIVE RunCalls(_, _, _)
RunCalls(S, t, calls) ==
    IF calls = << >> THEN << >>
    ELSE LET t1   == IF Head(calls)[1] = "wait" THEN t + MaxNow ELSE t
             rest == {<<r.val>> \o RunCalls(r.s, t1, Tail(calls)) :
                         r \in {ApplyCall(S, t, Head(calls))}}
         IN  CHOOSE x \in rest : TRUE

\* What every script of at most n calls returns on a new store over an empty
\* localStorage, with the options and environment of the current store.
ScriptResults(n) ==
    [calls \in CallSeqs(n) |->
        RunCalls(Construct(EmptyMap, << >>, 0), 0, calls)]

\* --- SpecMemory: stores constructed with persistence on or off, with and
\* without window / localStorage, one after the other over one localStorage.

MemoryInit ==
    \E c \in [persist : BOOLEAN, isClient : BOOLEAN, maxSize : 1 .. MaxMaxSize,
              debug : {FALSE}] : InitWith(c, {"construct"})

MemoryNext ==
    \/ Tick
    \/ \E k \in Keys : Get(k, "ok")
    \/ \E k \in Keys : Set(k, 1, Ttl6s, "ok")
    \/ \E k \in Keys : Remove(k)
    \/ ClearAll(Keys)
    \/ \E p, client \in BOOLEAN : Reconstruct(p, client)

SpecMemory == MemoryInit /\ [][MemoryNext]_vars

\* --- SpecParse: parseTime called on numbers and strings.

\* Strings of no digit, one digit up to MaxDigit or such a digit after a 0,
\* followed by a unit, a unit in another case, other letters or other
\* characters (the products stay below 2^31).
ParseInputs ==
    LET ds    == {Digits[i + 1] : i \in 0 .. MaxDigit}
        nums  == {<< >>} \cup {<<d>> : d \in ds} \cup {<<"0", d>> : d \in ds}
        units == {<<"m", "s">>, <<"s">>, <<"m">>, <<"h">>, <<"d">>, <<"w">>,
                  <<"M", "s">>, <<"S">>, <<"H">>, <<"W">>, <<"x">>, <<"s", "m">>,
                  <<"m", "i", "n">>, << >>, <<" ", "s">>, <<"s", "1">>, <<".", "5", "s">>,
                  <<"C", "o", "n", "s", "t", "r", "u", "c", "t", "o", "r">>}
    IN  {StrTtl(d \o u) : d \in nums, u \in units}
          \cup {StrTtl(<<"-", "1", "s">>), StrTtl(<<"s", "5">>),
                StrTtl(<<"1", "2", "m", "s">>), StrTtl(<<"5", "9", "s">>),
                StrTtl(<<"1", "0", "m">>), StrTtl(<<"2", "4", "h">>)}
          \cup {NumTtl(n) : n \in {0, 1, 1000, 300000}}

ParseCall(input) ==
    /\ ret' = Note(Ret("parseTime", input, parseTime(input).ok, parseTime(input)))
    /\ UNCHANGED <<storeVars, confVars, debugVars, now, fetches, callers, hooks, hist>>

SpecParse ==
    /\ \E c \in [persist : {FALSE}, isClient : {TRUE}, maxSize : {MaxMaxSize},
                 debug : {FALSE}] : InitWith(c, {"parseTime"})
    /\ [][\E input \in ParseInputs : ParseCall(input)]_vars

\* --- SpecClear: remove, clear(pattern) and clear() among sets and gets of
\* three keys and one preload whose fetch stays pending, within one clock
\* reading.

ClearInit ==
    \E c \in [persist : BOOLEAN, isClient : {TRUE}, maxSize : {ClearNumKeys},
              debug : {FALSE}] :
        InitWith(c, {"remove", "clearPattern", "clear"})

ClearNext ==
    \/ \E k \in ClearKeys : Get(k, "ok")
    \/ \E k \in ClearKeys : Set(k, 1, Ttl1h, "ok")
    \/ \E k \in ClearKeys : SetPromise(k, Ttl1h)
    \/ \E k \in ClearKeys : callers = << >> /\ Preload(k, Ttl1h)
    \/ \E k \in ClearKeys : Remove(k)
    \/ \E m \in SUBSET ClearKeys : ClearPattern(m)
    \/ ClearAll(ClearKeys)

SpecClear == ClearInit /\ [][ClearNext]_vars

\* --- SpecHook: useData hooks for one key on an in-memory store, within one
\* clock reading.

HookInit ==
    \E c \in [persist : {FALSE}, isClient : {TRUE}, maxSize : {MaxMaxSize},
              debug : {FALSE}] :
        InitWith(c, {"reject", "focus", "online"})

HookNext ==
    \/ \E h \in 1 .. NumHooks : HookMount(h, 1)
    \/ \E h \in 1 .. NumHooks : HookRender(h)
    \/ \E h \in 1 .. NumHooks : HookRefresh(h)
    \/ \E h \in 1 .. NumHooks : HookClear(h)
    \/ \E h \in 1 .. NumHooks : HookUnmount(h)
    \/ FocusEvent
    \/ OnlineEvent
    \/ \E f \in 1 .. MaxFetches, v \in {Undefined, 1} : HookResolve(f, v, "ok")
    \/ \E f \in 1 .. MaxFetches : HookReject(f, "ok")
    \/ \E c \in 1 .. MaxCallers : HookObserve(c, "ok")

SpecHook == HookInit /\ [][HookNext]_vars

\* --- SpecSignal: callbacks subscribed by hooks and by the application, clear()
\* and the window's focus and online events.

SpecSignal ==
    /\ \E c \in [persist : {FALSE}, isClient : {TRUE}, maxSize : {MaxMaxSize},
                 debug : {FALSE}] : InitWith(c, {"focus", "online", "clear"})
    /\ [][\/ \E k \in Keys : Set(k, 1, Ttl1h, "ok")
          \/ ClearAll(Keys)
          \/ \E k \in Keys : AddCallback(k, PlainCallback)
          \/ \E k \in Keys : RemoveCallback(k, PlainCallback)
          \/ \E h \in 1 .. NumHooks : HookMount(h, 1)
          \/ FocusEvent
          \/ OnlineEvent]_vars

\* --- SpecTrack: the debug monitor's tracking calls over time, in and out of
\* development mode.

SpecTrack ==
    /\ \E c \in [persist : {FALSE}, isClient : {TRUE}, maxSize : {MaxMaxSize},
                 debug : BOOLEAN] : InitWith(c, {"track"})
    /\ [][\/ Tick
          \/ Track("hit", 1)
          \/ clearDebugOperations]_vars

\* --- SpecSettle: preloads of a key that is removed or cleared while the
\* fetch is in flight, on a store of one entry that also holds another key.
\* The continuation of an await runs once the awaited promise has settled
\* (weak fairness of Observe); whether a fetch settles is up to its fetcher.

SettleNext ==
    \/ Set(2, 2, Ttl1h, "ok")
    \/ Remove(1)
    \/ ClearAll(Keys)
    \/ Preload(1, Ttl1h)
    \/ \E f \in 1 .. MaxFetches, v \in {1, 30} : PreloadResolve(f, v, "ok")
    \/ \E f \in 1 .. MaxFetches : PreloadReject(f)
    \/ \E c \in 1 .. MaxCallers : Observe(c)

SpecSettle ==
    /\ \E c \in [persist : {FALSE}, isClient : {TRUE}, maxSize : {1},
                 debug : {FALSE}] : InitWith(c, {"resolve"})
    /\ [][SettleNext]_vars
    /\ \A c \in 1 .. MaxCallers : WF_vars(Observe(c))

\* --- SpecBadTtl: sets and preloads whose TTL argument is well formed or
\* malformed, while the fetches settle.

SpecBadTtl ==
    /\ \E c \in [persist : {FALSE}, isClient : {TRUE}, maxSize : {MaxMaxSize},
                 debug : {FALSE}] :
           InitWith(c, {"set", "preload", "resolve", "reject", "observe"})
    /\ [][\/ \E ttl \in {Ttl6s, TtlBad} : Set(1, 1, ttl, "ok")
          \/ \E k \in Keys, ttl \in {Ttl6s, TtlBad} : Preload(k, ttl)
          \/ \E f \in 1 .. MaxFetches : PreloadResolve(f, 2, "ok")
          \/ \E f \in 1 .. MaxFetches : PreloadReject(f)
          \/ \E c \in 1 .. MaxCallers : Observe(c)]_vars

\* --- SpecLoop: hooks with a refreshInterval on one key, mounting and
\* unmounting while their timers fire and the fetches of the refresh loops
\* settle. The continuation of an await runs once the awaited promise has
\* settled (weak fairness of HookObserve); whether a fetch settles is up to its
\* fetcher.

SpecLoop ==
    /\ \E c \in [persist : {FALSE}, isClient : {TRUE}, maxSize : {MaxMaxSize},
                 debug : {FALSE}] : InitWith(c, {"mount", "unmount", "timer"})
    /\ [][\/ \E h \in 1 .. NumHooks : HookMountWith(h, 1, TRUE)
          \/ \E h \in 1 .. NumHooks : TimerFire(h)
          \/ \E h \in 1 .. NumHooks : HookUnmount(h)
          \/ \E f \in 1 .. MaxFetches : HookResolve(f, 2, "ok")
          \/ \E f \in 1 .. MaxFetches : HookReject(f, "ok")
          \/ \E c \in 1 .. MaxCallers : HookObserve(c, "ok")]_vars
    /\ \A c \in 1 .. MaxCallers : WF_vars(HookObserve(c, "ok"))

\* --- SpecShare: hooks of one key mounting, rendering, refreshing,
\* revalidating and unmounting while their fetches settle.

SpecShare ==
    /\ HookInit
    /\ [][\/ \E h \in 1 .. NumHooks : HookMount(h, 1)
          \/ \E h \in 1 .. NumHooks : HookRender(h)
          \/ \E h \in 1 .. NumHooks : HookRefresh(h)
          \/ \E h \in 1 .. NumHooks : HookUnmount(h)
          \/ FocusEvent
          \/ OnlineEvent
          \/ \E f \in 1 .. MaxFetches : HookResolve(f, 1, "ok")
          \/ \E f \in 1 .. MaxFetches : HookReject(f, "ok")
          \/ \E c \in 1 .. MaxCallers : HookObserve(c, "ok")]_vars

\* --- SpecNotify: callbacks registered by hooks and by the application on two
\* keys, and the window's focus and online events.

NotifyNext ==
    \/ \E h \in 1 .. NumHooks, k \in Keys : HookMount(h, k)
    \/ \E h \in 1 .. NumHooks : HookUnmount(h)
    \/ \E k \in Keys, cb \in {PlainCallback, ThrowingCallback} : AddCallback(k, cb)
    \/ \E k \in Keys, cb \in {PlainCallback, ThrowingCallback} : RemoveCallback(k, cb)
    \/ FocusEvent
    \/ OnlineEvent
    \/ \E f \in 1 .. MaxFetches : HookResolve(f, 1, "ok")

SpecNotify ==
    /\ \E c \in [persist : {FALSE}, isClient : {TRUE}, maxSize : {MaxMaxSize},
                 debug : {FALSE}] :
          InitWith(c, {"focus", "online", "addCallback", "removeCallback"})
    /\ [][NotifyNext]_vars

\* --- SpecRefresh: hooks with and without a refreshInterval on two keys, their
\* timers firing, and the fetches of the refresh loops settling.

RefreshNext ==
    \/ Set(1, 1, Ttl1h, "ok")
    \/ \E h \in 1 .. NumHooks, k \in Keys, r \in BOOLEAN : HookMountWith(h, k, r)
    \/ \E h \in 1 .. NumHooks : TimerFire(h)
    \/ \E h \in 1 .. NumHooks : HookUnmount(h)
    \/ \E f \in 1 .. MaxFetches : HookResolve(f, 2, "ok")
    \/ \E f \in 1 .. MaxFetches : HookReject(f, "ok")
    \/ \E c \in 1 .. MaxCallers : HookObserve(c, "ok")

SpecRefresh ==
    /\ \E c \in [persist : {FALSE}, isClient : {TRUE}, maxSize : {MaxMaxSize},
                 debug : {FALSE}] :
          InitWith(c, {"mount", "unmount", "timer"})
    /\ [][RefreshNext]_vars

\* ------------------------------------------------------------- properties

\* The node references of the recency list name nodes of lruMap (the model
\* names a node by its key).
NodesNamed ==
    /\ lruHead = Null \/ lruHead \in DOMAIN lruMap
    /\ lruTail = Null \/ lruTail \in DOMAIN lruMap
    /\ \A k \in DOMAIN lruMap :
          /\ lruMap[k].next = Null \/ lruMap[k].next \in DOMAIN lruMap
          /\ lruMap[k].prev = Null \/ lruMap[k].prev \in DOMAIN lruMap

Expired(k) == MapHas(cache, k) /\ now >= cache[k].expiresAt

\* C4: after any call to set returns, the number of entries in the cache map is
\* at most maxSize (placeholder entries count).
C4_SizeWithinMaxAfterSet ==
    ret.op = "set" => Cardinality(DOMAIN cache) <= maxSize

\* C5: between operations the keys of the recency index (lruMap and the list)
\* are exactly the keys of the cache map.
C5_IndexKeysAreMapKeys ==
    DOMAIN lruMap = DOMAIN cache

\* C7: a get(key) made when now >= expiresAt returns absent, and the entry is
\* gone from the map, the recency index and the durable store afterwards.
C7_ExpiredGetRemoves ==
    (ret.op = "get" /\ hist.pre.expired) =>
        /\ ret.val = Undefined
        /\ ~MapHas(cache, ret.key)
        /\ ~MapHas(lruMap, ret.key)
        /\ lruHead # ret.key /\ lruTail # ret.key
        /\ \A k \in DOMAIN lruMap : lruMap[k].next # ret.key /\ lruMap[k].prev # ret.key
        /\ ~MapHas(storage, ret.key)

C7_Witness ==
    /\ ret.op = "get" /\ hist.pre.expired
    /\ persist
    /\ DOMAIN cache # {}
    /\ now > 0

\* C8: an entry with now >= expiresAt is reported by no read path: getItemInfo,
\* getPromise, getKeys and getStats treat it as absent.
C8_ReadsHideExpired ==
    \A k \in Keys : Expired(k) =>
        /\ ~getItemInfo(Store, k).found
        /\ getPromise(Store, k) = Null
        /\ k \notin getKeys(Store)
        /\ getStats(Store).itemCount =
              Cardinality({x \in DOMAIN cache : ~Expired(x)})

\* C10: a set whose estimated size exceeds maxItemSize returns false and leaves
\* the map, the recency index, the pending-fetch registry and the durable store
\* as they were: no entry is created or updated and none is evicted, and a key
\* without an entry is still absent on the next get.
C10_OversizedSetRejected ==
    [][(ret'.op = "set" /\ estimateSize(ret'.val) > MaxItemSize) =>
          /\ ~ret'.ok
          /\ UNCHANGED storeVars
          /\ ~MapHas(cache, ret'.key) =>
                get(Store, ret'.key, now, "ok").val = Undefined]_vars

C10_Witness ==
    /\ ret.op = "set" /\ ret.val = 30 /\ ~ret.ok
    /\ estimateSize(ret.val) > MaxItemSize
    /\ ~MapHas(cache, ret.key)
    /\ Cardinality(DOMAIN cache) = maxSize

\* C9: when the durable-store write of a set fails with a capacity-exceeded
\* error (once, or also on the retry), set returns normally and a get of the key
\* before its TTL elapses returns the value that was set, whatever the cache
\* held before.
C9_SetSurvivesQuotaFailure ==
    (ret.op = "set" /\ hist.pre.q \in {"quota1", "quota2"}) =>
        /\ ret.ok
        /\ get(Store, ret.key, now, "ok").val = ret.val

\* The cached key whose most recent set or successful get is the oldest.
OldestCached ==
    LET idx == {i \in DOMAIN hist.order : hist.order[i] \in DOMAIN cache}
    IN  hist.order[CHOOSE i \in idx : \A j \in idx : j <= i]

\* C6: with only set and get of unexpired keys, a set of a new key into a store
\* holding maxSize entries evicts exactly the entry whose most recent set or
\* successful get is the oldest, and a successful get moves its key to the front
\* of the recency order (maxSize 3: set A, set B, set C, get A, set D evicts B).
C6_EvictsLeastRecentlyUsed ==
    [][/\ (ret'.op = "set" /\ ret'.ok /\ ~hist'.pre.had
              /\ Cardinality(DOMAIN cache) = maxSize) =>
            DOMAIN cache' = ((DOMAIN cache) \ {OldestCached}) \cup {ret'.key}
       /\ (ret'.op = "get" /\ hist'.pre.had /\ ~hist'.pre.expired) =>
            /\ lruHead' = ret'.key
            /\ DOMAIN cache' = DOMAIN cache
       /\ (ret'.op = "set" /\ ret'.ok /\ Cardinality(DOMAIN cache) < maxSize) =>
            DOMAIN cache' = (DOMAIN cache) \cup {ret'.key}]_vars

C6_Witness ==
    /\ maxSize = 3
    /\ hist.order = <<4, 1, 3, 2>>
    /\ ret.op = "set" /\ ret.key = 4
    /\ DOMAIN cache = {1, 3, 4}
    /\ \A k \in {1, 3, 4} : get(Store, k, now, "ok").val = 1
    /\ get(Store, 2, now, "ok").val = Undefined

\* C1: preload calls for one key, all made before the fetch settles and with no
\* other operation on that key in between, invoke the fetch once (they await
\* the same fetch) and receive the same resolved value.
C1_ConcurrentPreloadsShareOneFetch ==
    \A c1 \in DOMAIN callers, c2 \in DOMAIN callers :
        (callers[c1].key = callers[c2].key /\ callers[c1].epoch = callers[c2].epoch) =>
            /\ callers[c1].fetch = callers[c2].fetch
            /\ (callers[c1].status = "value" /\ callers[c2].status = "value") =>
                  callers[c1].val = callers[c2].val

\* C2: at any time at most one fetch per key is unsettled.
C2_OneUnsettledFetchPerKey ==
    \A f1 \in DOMAIN fetches, f2 \in DOMAIN fetches :
        (fetches[f1].key = fetches[f2].key
            /\ fetches[f1].state = "pending" /\ fetches[f2].state = "pending") =>
            f1 = f2

\* C3: once a fetch has settled no pending-fetch registration of it survives:
\* it is neither the key's active request nor the promise of the key's entry.
C3_SettledFetchNotRegistered ==
    \A f \in DOMAIN fetches :
        fetches[f].state # "pending" =>
            /\ getActiveRequest(Store, fetches[f].key) # f
            /\ getPromise(Store, fetches[f].key) # f
            /\ getItemInfo(Store, fetches[f].key).found =>
                  ~getItemInfo(Store, fetches[f].key).hasPromise

\* C11: when the fetch of a preload fails, the key's entry is removed entirely
\* (no map entry, no recency node, no pending-fetch registration, no promise),
\* and every caller awaiting that fetch receives the failure, never a value.
C11_FailedPreloadRemovesPlaceholder ==
    [][/\ (ret'.op = "reject" /\ fetches'[ret'.val].kind = "preload") =>
            /\ ~MapHas(cache', ret'.key)
            /\ ~MapHas(lruMap', ret'.key)
            /\ lruHead' # ret'.key /\ lruTail' # ret'.key
            /\ ~MapHas(activeRequests', ret'.key)
       /\ \A c \in DOMAIN callers' :
            (callers'[c].via = "preload" /\ callers'[c].status # "waiting"
                /\ fetches'[callers'[c].fetch].state = "rejected") =>
               callers'[c].status = "error"]_vars

C11_Witness ==
    /\ ret.op = "observe" /\ ~ret.ok
    /\ \E c1 \in DOMAIN callers, c2 \in DOMAIN callers :
          /\ c1 # c2
          /\ callers[c1].fetch = callers[c2].fetch
          /\ fetches[callers[c1].fetch].fresh
          /\ fetches[callers[c1].fetch].state = "rejected"
          /\ callers[c1].status = "error" /\ callers[c2].status = "error"
          /\ ~callers[c1].joined /\ callers[c2].joined
          /\ ~MapHas(cache, callers[c1].key)
          /\ ~MapHas(activeRequests, callers[c1].key)

\* C12: a failed fetch for a key that holds a prior, unexpired value leaves
\* that value in the cache: after the failure get(key) still returns it.
C12_FailedFetchKeepsPriorValue ==
    [][(ret'.op = "reject" /\ ~fetches'[ret'.val].fresh
            /\ get(Store, ret'.key, now, "ok").val # Undefined) =>
          get(Store', ret'.key, now', "ok").val = get(Store, ret'.key, now, "ok").val]_vars

\* C13: when the fetch of a preload resolves with v, the value is written by
\* set and returned: right after the resolution get(key) returns v (the TTL is
\* greater than zero), whatever the cache held before.
C13_ResolvedPreloadIsCached ==
    (ret.op = "resolve" /\ fetches[ret.val].kind = "preload") =>
        get(Store, ret.key, now, "ok").val = fetches[ret.val].value

\* C14: clear() with no pattern removes everything: afterwards the map is
\* empty, the recency index is empty (no nodes, head and tail empty), no pending
\* fetch and no refresh timer is registered, the durable store holds no record
\* under the prefix and no revalidation subscription is left.
C14_ClearRemovesEverything ==
    ret.op = "clear" =>
        /\ DOMAIN cache = {}
        /\ DOMAIN lruMap = {} /\ lruHead = Null /\ lruTail = Null
        /\ DOMAIN activeRequests = {}
        /\ DOMAIN refreshIntervals = {}
        /\ DOMAIN storage = {}
        /\ DOMAIN revalidationCallbacks = {}

\* The members of ks in seq, in the order of seq.
RECURSIVE Keep(_, _)
Keep(seq, ks) ==
    IF seq = << >> THEN << >>
    ELSE IF Head(seq) \in ks THEN <<Head(seq)>> \o Keep(Tail(seq), ks)
    ELSE Keep(Tail(seq), ks)

\* Key k has the same entry, durable record and pending fetch before and after
\* the step.
SameKey(k) ==
    /\ MapHas(cache', k) = MapHas(cache, k)
    /\ MapHas(cache, k) => cache'[k] = cache[k]
    /\ MapHas(storage', k) = MapHas(storage, k)
    /\ MapHas(storage, k) => storage'[k] = storage[k]
    /\ MapHas(activeRequests', k) = MapHas(activeRequests, k)
    /\ MapHas(activeRequests, k) => activeRequests'[k] = activeRequests[k]
    /\ MapHas(lruMap', k) = MapHas(lruMap, k)

\* C15: clear(pattern) removes exactly the entries whose key matches the
\* pattern and returns their count; every other entry keeps its data, expiry,
\* recency position and durable record, and stays retrievable.
C15_ClearPatternRemovesMatches ==
    [][ret'.op = "clearPattern" =>
        LET m    == hist'.pre.matched
            rest == ClearKeys \ m
        IN  /\ ret'.val = Cardinality(m \cap DOMAIN cache)
            /\ DOMAIN cache' = (DOMAIN cache) \ m
            /\ \A k \in rest :
                  /\ SameKey(k)
                  /\ get(Store', k, now', "ok").val = get(Store, k, now, "ok").val
            /\ Keep(ListOrder(Store'), rest) = Keep(ListOrder(Store), rest)]_vars

C15_Witness ==
    /\ ret.op = "clearPattern" /\ ret.val = 2
    /\ hist.pre.matched = {1, 2}
    /\ DOMAIN cache = {3}
    /\ get(Store, 3, now, "ok").val = 1
    /\ persist /\ DOMAIN storage = {3}
    /\ lruHead = 3 /\ lruTail = 3

\* C16: remove(key) returns success, also for an absent key, deletes the key
\* from the map, the recency index, the pending-fetch registry and the durable
\* store, changes nothing of any other key (entry, durable record, pending
\* fetch, relative recency order), and a repeated remove changes nothing.
C16_RemoveOnlyThatKey ==
    [][ret'.op = "remove" =>
        LET k == ret'.key
        IN  /\ ret'.ok
            /\ ~MapHas(cache', k) /\ ~MapHas(lruMap', k)
            /\ ~MapHas(activeRequests', k) /\ ~MapHas(storage', k)
            /\ lruHead' # k /\ lruTail' # k
            /\ \A j \in ClearKeys \ {k} : SameKey(j)
            /\ ListOrder(Store') = Without(ListOrder(Store), k)
            /\ remove(Store', k) = Store'
            /\ UNCHANGED <<refreshIntervals, revalidationCallbacks,
                           focusListener, onlineListener>>]_vars

C16_Witness ==
    /\ ret.op = "remove" /\ ret.key = 2
    /\ persist
    /\ DOMAIN cache = {1, 3} /\ DOMAIN storage = {1, 3}
    /\ ListOrder(Store) = <<3, 1>>
    /\ DOMAIN activeRequests = {}
    /\ \E f \in DOMAIN fetches : fetches[f].key = 2 /\ fetches[f].state = "pending"

\* C17: an accepted set(key, data, ttl) returns true and leaves the key's entry
\* with exactly that data, hit count 0, expiresAt = now + ttl and no pending
\* promise, with the key at the front of the recency order; an unexpired get
\* returns the data of the last set.
C17_AcceptedSetWritesEntry ==
    (ret.op = "set" /\ ret.ok) =>
        /\ MapHas(cache, ret.key)
        /\ cache[ret.key].data = ret.val
        /\ cache[ret.key].hits = 0
        /\ cache[ret.key].lastAccess = now
        /\ cache[ret.key].expiresAt = now + cache[ret.key].ttl
        /\ cache[ret.key].promise = Null
        /\ lruHead = ret.key
        /\ now < cache[ret.key].expiresAt =>
              get(Store, ret.key, now, "ok").val = ret.val

\* C18: a get on an unexpired entry returns its data and never changes the
\* entry's data, ttl or expiresAt; when the time since the entry's lastAccess
\* exceeds the throttle window (5 s, 0 in debug mode) it adds exactly one to
\* the hit count, sets lastAccess to now and writes the record to the durable
\* store; otherwise it changes neither the map nor the durable store.  Outside
\* a set, the hit count of an entry never decreases.
C18_GetCountsThrottledHits ==
    [][/\ (ret'.op = "get" /\ hist'.pre.had /\ ~hist'.pre.expired) =>
            LET k   == ret'.key
                old == cache[k]
                hit == now - old.lastAccess > throttleMs
            IN  /\ ret'.val = old.data
                /\ ~hit => UNCHANGED <<cache, storage>>
                /\ MapHas(cache', k) =>
                      /\ cache'[k].data = old.data
                      /\ cache'[k].ttl = old.ttl
                      /\ cache'[k].expiresAt = old.expiresAt
                      /\ cache'[k].hits = IF hit THEN old.hits + 1 ELSE old.hits
                      /\ cache'[k].lastAccess = IF hit THEN now ELSE old.lastAccess
                /\ (hit /\ hist'.pre.q \in {"ok", "error"}) => MapHas(cache', k)
                /\ (hit /\ hist'.pre.q = "ok") =>
                      /\ MapHas(storage', k)
                      /\ storage'[k] = Serialize(cache'[k])
       /\ ~(ret'.op = "set" /\ ret'.ok) =>
            \A k \in (DOMAIN cache) \cap (DOMAIN cache') :
                cache'[k].hits >= cache[k].hits]_vars

C18_Witness ==
    /\ ret.op = "get" /\ hist.pre.had /\ ~hist.pre.expired
    /\ ~debug
    /\ now > ThrottleMs
    /\ MapHas(cache, ret.key)
    /\ cache[ret.key].hits = 1
    /\ cache[ret.key].lastAccess = now
    /\ cache[ret.key].expiresAt = 3600000
    /\ storage[ret.key].hits = 1

\* C19: setPromise on a key that has an entry attaches the promise and leaves
\* the entry's data, ttl, expiresAt, hit count and recency position unchanged;
\* on a key without an entry it creates a placeholder with data absent, size 0
\* and expiresAt = now + ttl.  clearPromise detaches the promise and touches
\* nothing else.
C19_PromiseAttachesWithoutDisturbing ==
    [][/\ (ret'.op = "setPromise" /\ ret'.ok) =>
            LET k == ret'.key
            IN  /\ UNCHANGED <<lruMap, lruHead, lruTail, storage, activeRequests>>
                /\ DOMAIN cache' = (DOMAIN cache) \cup {k}
                /\ \A j \in (DOMAIN cache) \ {k} : cache'[j] = cache[j]
                /\ cache'[k].promise = ExternalPromise
                /\ IF hist'.pre.had
                   THEN cache'[k] = [cache[k] EXCEPT !.promise = ExternalPromise]
                   ELSE /\ cache'[k].data = Undefined
                        /\ cache'[k].size = 0
                        /\ cache'[k].hits = 0
                        /\ cache'[k].ttl \in {6000, 3600000}
                        /\ cache'[k].expiresAt = now + cache'[k].ttl
       /\ ret'.op = "clearPromise" =>
            /\ UNCHANGED <<lruMap, lruHead, lruTail, storage, activeRequests>>
            /\ cache' = IF hist'.pre.had
                        THEN [cache EXCEPT ![ret'.key].promise = Null]
                        ELSE cache]_vars

C19_Witness ==
    /\ ret.op = "setPromise" /\ hist.pre.had
    /\ now = MaxNow
    /\ cache[ret.key].data = 1
    /\ cache[ret.key].hits = 1
    /\ cache[ret.key].expiresAt = 3600000
    /\ cache[ret.key].promise = ExternalPromise
    /\ lruTail = ret.key /\ lruHead # ret.key

\* C20: loading from localStorage at construction puts into the cache every
\* record under the prefix that parses and is unexpired, deletes from
\* localStorage every record under the prefix that is expired, and skips a
\* corrupt record without aborting the scan, whatever the order and mix of
\* valid, expired and corrupt records.
C20_LoadKeepsLiveDropsExpired ==
    [][ret'.op = "construct" =>
         \A k \in DOMAIN storage :
            /\ (Parses(storage[k]) /\ now < storage[k].expiresAt)
                  => /\ MapHas(cache', k)
                     /\ cache'[k] = Deserialize(storage[k])
                     /\ MapHas(storage', k)
            /\ (Parses(storage[k]) /\ now >= storage[k].expiresAt)
                  => /\ ~MapHas(storage', k)
                     /\ ~MapHas(cache', k)
            /\ ~Parses(storage[k])
                  => /\ ~MapHas(cache', k)
                     /\ storage'[k] = storage[k]]_vars

\* C21: after loading from localStorage the recency list is ordered by the
\* persisted lastAccess, the most recently accessed entry at the head and the
\* least recently accessed at the tail (the entry the next eviction removes).
C21_LoadedListMostRecentFirst ==
    ret.op = "construct" =>
        LET order == ListOrder(Store)
        IN  /\ \A i, j \in DOMAIN order :
                 i < j => cache[order[i]].lastAccess >= cache[order[j]].lastAccess
            /\ lruTail # Null =>
                 \A k \in DOMAIN cache : cache[lruTail].lastAccess <= cache[k].lastAccess

\* The entries of m other than k (k = Null names no entry).
Except(m, k) == [x \in (DOMAIN m) \ {k} |-> m[x]]

C23_InMemoryReportsUnsupported ==
    [][/\ ~Persisting' =>
            /\ storage' = storage
            /\ ret'.op = "construct" => cache' = EmptyMap
            /\ (~getStats(Store).storageSupported)'
       /\ (Persisting /\ ~Persisting' /\ now = 0 /\ Store = Construct(EmptyMap, << >>, 0)) =>
            ScriptResults(ScriptLen)' = ScriptResults(ScriptLen)]_vars

\* C23, amended: such a store never touches localStorage and returns for every
\* script what a persisting store over a never-failing localStorage returns;
\* getStats().storageSupported is false exactly when window / localStorage is
\* missing, and a store whose persistence is merely disabled reports
\* persistenceEnabled = false instead.
C23_InMemoryStoreEquivalent ==
    [][/\ ~Persisting' =>
            /\ storage' = storage
            /\ ret'.op = "construct" => cache' = EmptyMap
            /\ \/ (~getStats(Store).storageSupported)'
               \/ (~getStats(Store).persistenceEnabled)'
       /\ (getStats(Store).storageSupported = isClient)'
       /\ (Persisting /\ ~Persisting' /\ now = 0 /\ Store = Construct(EmptyMap, << >>, 0)) =>
            ScriptResults(ScriptLen)' = ScriptResults(ScriptLen)]_vars

C23_Witness ==
    /\ ret.op = "construct"
    /\ ~persist /\ isClient
    /\ DOMAIN storage = Keys
    /\ cache = EmptyMap
    /\ getStats(Store).storageSupported
    /\ ~getStats(Store).persistenceEnabled

\* C24: load and clear() of this store (prefix yasm_) never read or delete a
\* record written by a second store with another prefix (yasm_persist_) into
\* the shared localStorage.
C24_OtherPrefixUntouched ==
    [][(ret'.op \in {"construct", "clear"} /\ MapHas(storage, ForeignKey)) =>
          /\ MapHas(storage', ForeignKey)
          /\ storage'[ForeignKey] = storage[ForeignKey]
          /\ ~MapHas(cache', ForeignKey)]_vars

\* C25: a set whose TTL is malformed or has an unknown unit reports that to its
\* caller: its result differs from the result of an accepted set and from the
\* result of a set rejected because the item is too large.
C25_BadTtlReportedDistinctly ==
    \A k \in Keys :
        LET bad      == set(Store, k, 1, TtlBad, now, "ok").val
            accepted == set(Store, k, 1, Ttl6s, now, "ok").val
            tooLarge == set(Store, k, 30, Ttl6s, now, "ok").val
        IN  (ret.op = "set" /\ ~ret.ok) => (bad # accepted /\ bad # tooLarge)

\* The millisecond factor of a unit, as the claim lists them; 0 for other units.
FactorOf(unit) ==
    CASE unit = <<"m", "s">> -> 1
      [] unit = <<"s">>      -> 1000
      [] unit = <<"m">>      -> 60000
      [] unit = <<"h">>      -> 3600000
      [] unit = <<"d">>      -> 86400000
      [] unit = <<"w">>      -> 604800000
      [] OTHER               -> 0

\* C26: parseTime returns a number unchanged; for <digits><unit> with a unit
\* out of ms, s, m, h, d, w in any letter case it returns digits times the
\* unit's factor; it fails with an invalid-format error when the string is not
\* <digits><letters>, and with an unknown-unit error when it is but the unit is
\* not one of the six.
C26_ParseTimeByUnit ==
    ret.op = "parseTime" =>
        LET input == ret.key
            r     == ret.val
            nd    == LeadingDigits(input.s)
            unit  == SubSeq(input.s, nd + 1, Len(input.s))
            form  == nd >= 1 /\ Len(unit) >= 1 /\ \A i \in DOMAIN unit : IsLetter(unit[i])
            f     == FactorOf(ToLowerCase(unit))
        IN  IF input.isNum THEN r.ok /\ ~r.isNaN /\ r.ms = input.n
            ELSE IF ~form THEN ~r.ok /\ r.error = "InvalidFormat"
            ELSE IF f = 0 THEN ~r.ok /\ r.error = "UnknownUnit"
            ELSE r.ok /\ ~r.isNaN /\ r.ms = ParseInt(SubSeq(input.s, 1, nd)) * f

\* C27: when the window's focus or online event fires, every callback
\* registered for every key is invoked, also when one of the callbacks throws.
C27_EveryCallbackInvoked ==
    [][ret'.op \in {"focus", "online"} =>
         \A k \in DOMAIN revalidationCallbacks :
            \A i \in DOMAIN revalidationCallbacks[k] :
               \E j \in DOMAIN ret'.val :
                  ret'.val[j] = <<k, revalidationCallbacks[k][i]>>]_vars


\* The callbacks registered for key k in registry m.
CallbacksOf(m, k) ==
    IF k \in DOMAIN m THEN {m[k][i] : i \in DOMAIN m[k]} ELSE {}

\* C28: addRevalidationCallback(k, cb) adds cb to the set of k and
\* removeRevalidationCallback(k, cb) takes it out, leaving every other
\* subscription as it was; a set never holds a callback twice, and a key whose
\* set is empty has no entry in the registry.
C28_SubscriptionSetsExact ==
    [][/\ \A k \in DOMAIN revalidationCallbacks' :
             /\ revalidationCallbacks'[k] # << >>
             /\ \A i, j \in DOMAIN revalidationCallbacks'[k] :
                   revalidationCallbacks'[k][i] = revalidationCallbacks'[k][j]
                      => i = j
       /\ ret'.op = "addCallback" =>
             \A k \in Keys :
                CallbacksOf(revalidationCallbacks', k) =
                   CallbacksOf(revalidationCallbacks, k)
                      \cup (IF k = ret'.key THEN {ret'.val} ELSE {})
       /\ ret'.op = "removeCallback" =>
             \A k \in Keys :
                CallbacksOf(revalidationCallbacks', k) =
                   CallbacksOf(revalidationCallbacks, k)
                      \ (IF k = ret'.key THEN {ret'.val} ELSE {})]_vars

\* After a removeRevalidationCallback the key has no entry in the registry,
\* while another key holds several callbacks.
C28_Witness ==
    /\ ret.op = "removeCallback"
    /\ ret.key \notin DOMAIN revalidationCallbacks
    /\ \E k \in DOMAIN revalidationCallbacks : Len(revalidationCallbacks[k]) >= 2


\* C29: a refresh timer that is still due to fire is the handle stored for its
\* key, so a key has at most one; a handle that is replaced or forgotten is
\* cancelled; and when a hook with a refresh interval unmounts the key has no
\* stored handle.
C29_OneLiveTimerPerKey ==
    [][/\ \A h \in 1 .. NumHooks :
             hooks'[h].live =>
                /\ hooks'[h].key \in DOMAIN refreshIntervals'
                /\ refreshIntervals'[hooks'[h].key] = hooks'[h].timeoutId
       /\ \A k \in DOMAIN refreshIntervals :
             (k \notin DOMAIN refreshIntervals'
                 \/ refreshIntervals'[k] # refreshIntervals[k])
             => \A h \in 1 .. NumHooks :
                   ~(hooks'[h].live /\ hooks'[h].timeoutId = refreshIntervals[k])
       /\ (ret'.op = "unmount" /\ hooks[ret'.val].refreshMs /\ Mounted(hooks, ret'.val)
              /\ ~Mounted(hooks', ret'.val))
             => ret'.key \notin DOMAIN refreshIntervals']_vars

\* Two hooks with a refresh interval share a key; the timer of one is due and
\* stored, the timer of the other was scheduled earlier and is not due.
C29_Witness ==
    \E h1, h2 \in 1 .. NumHooks :
       /\ h1 # h2
       /\ Mounted(hooks, h1) /\ Mounted(hooks, h2)
       /\ hooks[h1].key = hooks[h2].key
       /\ hooks[h1].refreshMs /\ hooks[h2].refreshMs
       /\ hooks[h1].live /\ ~hooks[h2].live /\ hooks[h2].timeoutId # Null
       /\ hooks[h1].timeoutId = NextTimeoutId(hooks, h1) + 1
       /\ refreshIntervals[hooks[h1].key] = hooks[h1].timeoutId


\* C30: while a fetch started by one hook for a key is unsettled, no step of
\* any hook (mount, render, refresh, revalidation) starts another fetch for
\* that key on behalf of another hook.
C30_NoSecondFetchWhileUnsettled ==
    [][\A f \in DOMAIN fetches' \ DOMAIN fetches :
          \A g \in DOMAIN fetches :
             ~(/\ fetches[g].state = "pending"
               /\ fetches[g].kind = "hook"
               /\ fetches[g].key = fetches'[f].key
               /\ fetches[g].by # fetches'[f].by)]_vars


C32_LogKeepsNewestTwenty ==
    [][/\ Len(debugState'.operations) <= 20
       /\ ret'.op = "track" =>
             IF NODE_ENV = "development"
             THEN /\ debugState'.operations[1] =
                        [key |-> ret'.key, type |-> ret'.val.type, timestamp |-> now]
                  /\ Len(debugState'.operations) =
                        IF Len(debugState.operations) < 20
                        THEN Len(debugState.operations) + 1 ELSE 20
                  /\ \A i \in 2 .. Len(debugState'.operations) :
                        debugState'.operations[i] = debugState.operations[i - 1]
             ELSE debugState' = debugState]_vars

\* A track call on a full log has just dropped the oldest operation, which
\* was older than the one now last.
C32_Witness ==
    /\ ret.op = "track" /\ ret.ok /\ ret.val.dropped = 1
    /\ Len(debugState.operations) = 20
    /\ debugState.operations[1].timestamp = MaxNow
    /\ debugState.operations[20].timestamp = TickMs


\* C33: when a preload's fetch resolves on a key that has an entry (its
\* placeholder) in a map of at most maxSize entries, every entry of the map is
\* still there afterwards.
C33_ResolveOnPlaceholderEvictsNothing ==
    [][(/\ ret'.op = "resolve"
        /\ fetches[ret'.val].state = "pending"
        /\ ret'.key \in DOMAIN cache
        /\ Cardinality(DOMAIN cache) <= maxSize)
       => DOMAIN cache \subseteq DOMAIN cache']_vars


\* C34: in every reachable state the recency list is a well-formed doubly
\* linked list: the head has no predecessor and the tail no successor,
\* following next from the head visits every node of lruMap exactly once and
\* ends at the tail, prev is the inverse of next, and head and tail are empty
\* exactly when lruMap is.
C34_RecencyListWellFormed ==
    LET n     == Cardinality(DOMAIN lruMap)
        order == Walk(lruMap, lruHead, n + 1)
    IN  /\ NodesNamed
        /\ (lruHead = Null) <=> (n = 0)
        /\ (lruTail = Null) <=> (n = 0)
        /\ lruHead # Null => lruMap[lruHead].prev = Null
        /\ lruTail # Null => lruMap[lruTail].next = Null
        /\ Len(order) = n
        /\ {order[i] : i \in 1 .. Len(order)} = DOMAIN lruMap
        /\ n > 0 => order[n] = lruTail
        /\ \A i \in 2 .. Len(order) : lruMap[order[i]].prev = order[i - 1]

\* A remove has taken a node out of a list of three, leaving two linked nodes.
C34_Witness ==
    /\ ret.op = "remove"
    /\ ret.key \notin DOMAIN lruMap
    /\ Cardinality(DOMAIN lruMap) = 2
    /\ lruMap[lruHead].next = lruTail
    /\ lruMap[lruTail].prev = lruHead


\* C35: a get on a key whose entry has not expired leaves every entry of the
\* map in place, whatever the outcome of the persistence write it triggers.
C35_GetRemovesNothing ==
    [][(ret'.op = "get" /\ MapHas(cache, ret'.key) /\ ~Expired(ret'.key))
       => DOMAIN cache \subseteq DOMAIN cache']_vars


\* C36: whenever the window's focus or online event has fired while callbacks
\* were subscribed (the event leaves the subscriptions as they are), callbacks
\* were invoked, also after a clear() of the store.
C36_SignalsDeliveredForLife ==
    (ret.op \in {"focus", "online"} /\ DOMAIN revalidationCallbacks # {})
       => Len(ret.val) > 0


\* C37: when a fetch for a key settles, the registration of another fetch for
\* the same key that is still unsettled stays as it was.
C37_SettlementKeepsNewerRegistration ==
    [][ret'.op \in {"resolve", "reject"} =>
          \A k \in DOMAIN activeRequests :
             (k = ret'.key /\ activeRequests[k] # ret'.val
                 /\ fetches'[activeRequests[k]].state = "pending")
             => (k \in DOMAIN activeRequests'
                    /\ activeRequests'[k] = activeRequests[k])]_vars


\* C38: when the fetch of a preload fails, a value that a set (or another
\* fetch's success) wrote for the key after the preload put its placeholder
\* there stays in the cache as it was.
C38_FailedPreloadKeepsLaterValue ==
    [][(ret'.op = "reject" /\ fetches[ret'.val].kind = "preload"
            /\ fetches[ret'.val].cont
            /\ MapHas(cache, ret'.key) /\ cache[ret'.key].promise = Null) =>
          (MapHas(cache', ret'.key) /\ cache'[ret'.key] = cache[ret'.key])]_vars

\* C39: a set or a preload called with a malformed TTL leaves the engine
\* state as it was: no entry created or modified, no fetch left registered.
C39_BadTtlLeavesStateUnchanged ==
    [][(\/ /\ ret'.op = "set" /\ ~ret'.ok
           /\ estimateSize(ret'.val) <= MaxItemSize
        \/ /\ ret'.op = "preload"
           /\ Len(fetches') > Len(fetches)
           /\ ~ParseTtlArg(fetches'[Len(fetches')].ttl).ok)
       => UNCHANGED storeVars]_vars

\* C40: if the fetches settle, every mounted hook with a refresh interval has
\* its refresh timer due again (or has unmounted), also when another hook of
\* the same key and interval mounts or unmounts in the meantime.
C40_RefreshLoopKeepsRunning ==
    []<>(\A f \in DOMAIN fetches : fetches[f].state # "pending")
       => \A h \in 1 .. NumHooks :
             (Mounted(hooks, h) /\ hooks[h].refreshMs)
                ~> (~Mounted(hooks, h) \/ hooks[h].live)
====
